---- MODULE Spec2Model ----
(***************************************************************************)
(* Personal finance tracker (catatan-keuangan-pribadi): the two tables     *)
(* `categories` and `transactions` of server/src/db/schema.ts and the      *)
(* handlers of server/src/handlers that read and write them.               *)
(*                                                                         *)
(* A JavaScript number that carries an amount is modelled as a record      *)
(* [units, mills] (whole currency units and thousandths); a value of the   *)
(* numeric(10,2) column is a record [units, cents].  An optional input     *)
(* field is a set with no element (undefined) or with one element.         *)
(***************************************************************************)
EXTENDS Integers, FiniteSets, Sequences, TLC

(***************************************************************************)
(* Bounds of the model.                                                    *)
(***************************************************************************)
MaxCategoryId == 2
MaxTransactionId == 2
MaxTime == 1
MaxDate == 1
MaxCalls == 3

(***************************************************************************)
(* Program constants.                                                      *)
(***************************************************************************)
NumericPrecision == 10
NumericScale == 2

transactionTypeEnum == {"income", "expense"}

(***************************************************************************)
(* Input domains.                                                          *)
(***************************************************************************)
Names == {"Salary", "Food"}
Descriptions == {"Lunch", "Bonus"}
Dates == 0..MaxDate
Times == 0..MaxTime
CategoryIdInputs == 0..MaxCategoryId
TransactionIdInputs == 0..MaxTransactionId
PositiveCategoryIds == 1..MaxCategoryId

\* amounts that pass z.number().positive(): 0.001, 1.005, 99999999.995
Amounts ==
    { [units |-> 0, mills |-> 1],
      [units |-> 1, mills |-> 5],
      [units |-> 99999999, mills |-> 995] }

Opt(S) == {{}} \cup {{x} : x \in S}
The(s) == CHOOSE x \in s : TRUE

VARIABLES
    categoriesTable,      \* rows of table categories
    transactionsTable,    \* rows of table transactions
    categoriesIdSeq,      \* last value of the serial sequence of categories.id
    transactionsIdSeq,    \* last value of the serial sequence of transactions.id
    now,                  \* the store's clock at the time of the call
    last,                 \* the most recent completed call and its outcome
    args,                 \* the input of that call, where it is recorded
    calls,                \* the call of each client: its statement and its outcome
    form,                 \* the client's TransactionForm, where it is mounted
    before                \* the tables as they were when the call was made

vars == <<categoriesTable, transactionsTable, categoriesIdSeq,
          transactionsIdSeq, now, last, args, calls, form, before>>

tables == [categories |-> categoriesTable, transactions |-> transactionsTable]

(***************************************************************************)
(* The numeric(10,2) column.                                               *)
(***************************************************************************)
\* the largest whole part a numeric(precision, scale) value can have, plus one
NumericLimit == 10 ^ (NumericPrecision - NumericScale)

\* the decimal text cut, not rounded, to 2 fractional digits
RoundToScaleTruncating(a) == [units |-> a.units, cents |-> a.mills \div 10]

\* input.amount.toString() assigned to the numeric(10,2) column: the decimal
\* text is rounded half away from zero to 2 fractional digits
RoundToScale(a) ==
    LET c == (a.mills + 5) \div 10
    IN  IF c = 100 THEN [units |-> a.units + 1, cents |-> 0]
                   ELSE [units |-> a.units, cents |-> c]

\* "numeric field overflow"
NumericOverflow(a) == RoundToScale(a).units >= NumericLimit

\* parseFloat of the column's text "units.cents"
parseFloat(n) == [units |-> n.units, mills |-> n.cents * 10]


(***************************************************************************)
(* Outcome of a call: the error thrown (or "none"), what the message       *)
(* names, and what is returned.                                            *)
(***************************************************************************)
Outcome(op, error, entity, id, count, success, rows) ==
    [op |-> op, error |-> error, entity |-> entity, id |-> id,
     count |-> count, success |-> success, rows |-> rows]

\* a call that returns a row
Returned(op, row) == Outcome(op, "none", "none", row.id, 0, TRUE, {row})

\* throw new Error(`Category with id ${id} not found`)
CategoryNotFound(op, id) == Outcome(op, "NotFound", "category", id, 0, FALSE, {})

\* throw new Error(`Transaction with id ${id} not found`)
TransactionNotFound(op, id) ==
    Outcome(op, "NotFound", "transaction", id, 0, FALSE, {})

\* an error of the store or of the query builder, rethrown by the handler
StoreError(op, id) == Outcome(op, "StoreError", "none", id, 0, FALSE, {})

(***************************************************************************)
(* Queries.                                                                *)
(***************************************************************************)
\* select from categories where categories.id = id
CategoriesWithId(cats, id) == {c \in cats : c.id = id}

\* select from transactions where transactions.id = id
TransactionsWithId(txns, id) == {t \in txns : t.id = id}

\* the lookup made on the wrong column: transactions.id instead of
\* transactions.category_id
TransactionsOfCategoryWrongColumn(txns, id) == {t \in txns : t.id = id}

\* select from transactions where transactions.category_id = id; the foreign
\* key transactions.category_id -> categories.id looks up the same rows
TransactionsOfCategory(txns, id) == {t \in txns : t.category_id = id}

\* transactions inner join categories on category_id = categories.id,
\* amount converted by parseFloat
TransactionWithCategory(t, c) ==
    [id |-> t.id, amount |-> parseFloat(t.amount), description |-> t.description,
     date |-> t.date, category_id |-> t.category_id, type |-> t.type,
     created_at |-> t.created_at, category_name |-> c.name]

\* the join made on transactions.id = categories.id
JoinedOnTransactionId(txns, cats, id) ==
    {TransactionWithCategory(t, c) :
        <<t, c>> \in {p \in TransactionsWithId(txns, id) \X cats :
                        p[1].id = p[2].id}}

JoinedTransactionsWithId(txns, cats, id) ==
    {TransactionWithCategory(t, c) :
        <<t, c>> \in {p \in TransactionsWithId(txns, id) \X cats :
                        p[1].category_id = p[2].id}}

(***************************************************************************)
(* Calls.  A handler runs its statements in order, awaiting each; a        *)
(* statement is atomic, and the store checks the foreign key and the       *)
(* column types at each statement.  calls[p] holds the call client p has   *)
(* made: the handler and, while it is in flight, its input, the statement  *)
(* it is at and its local results; once it has returned or thrown, its     *)
(* outcome.                                                                *)
(***************************************************************************)
Procs == 1..MaxCalls

Idle ==
    [op |-> "none", input |-> <<>>, pc |-> "idle", category |-> {},
     updated |-> 0, outcome |-> Outcome("init", "none", "none", 0, 0, FALSE, {})]

Started(op, input, pc) == [Idle EXCEPT !.op = op, !.input = input, !.pc = pc]

\* the call has returned or thrown: its locals are gone, its outcome stays
Done(call, outcome) ==
    [Idle EXCEPT !.op = call.op, !.pc = "done", !.outcome = outcome]

\* client p has no call in flight
NotInFlight(p) == calls[p].pc \in {"idle", "done"}

(***************************************************************************)
(* State after construction: empty tables, sequences not yet used.         *)
(***************************************************************************)
Init ==
    /\ categoriesTable = {}
    /\ transactionsTable = {}
    /\ categoriesIdSeq = 0
    /\ transactionsIdSeq = 0
    /\ now = 0
    /\ last = Outcome("init", "none", "none", 0, 0, FALSE, {})
    /\ args = <<>>
    /\ calls = [p \in Procs |-> Idle]
    /\ form = <<>>
    /\ before = <<>>

(***************************************************************************)
(* Category handlers.                                                      *)
(***************************************************************************)
CreateCategoryInputs == [name : Names, type : transactionTypeEnum]

\* the placeholder declaration: the input echoed under id 0, nothing stored
CreateCategoryPlaceholder(p, input) ==
    /\ NotInFlight(p)
    /\ categoriesIdSeq < MaxCategoryId
    /\ LET row == [id |-> 0, name |-> input.name,
                   type |-> input.type, created_at |-> now]
       IN  /\ categoriesTable' = categoriesTable
           /\ categoriesIdSeq' = categoriesIdSeq
           /\ calls' = [calls EXCEPT ![p] =
                 Done(Started("createCategory", input, "idle"),
                      Returned("createCategory", row))]
    /\ UNCHANGED <<transactionsTable, transactionsIdSeq, now>>

\* createCategory, its one statement: insert into categories ... returning
CreateCategory(p, input) ==
    /\ NotInFlight(p)
    /\ categoriesIdSeq < MaxCategoryId
    /\ LET row == [id |-> categoriesIdSeq + 1, name |-> input.name,
                   type |-> input.type, created_at |-> now]
       IN  /\ categoriesTable' = categoriesTable \cup {row}
           /\ categoriesIdSeq' = categoriesIdSeq + 1
           /\ calls' = [calls EXCEPT ![p] =
                 Done(Started("createCategory", input, "idle"),
                      Returned("createCategory", row))]
    /\ UNCHANGED <<transactionsTable, transactionsIdSeq, now>>

UpdateCategoryInputs ==
    [id : CategoryIdInputs, name : Opt(Names), type : Opt(transactionTypeEnum)]

\* a field that is not supplied replaced by a default (input.type || 'income')
SetCategoryDefaulting(c, updateData) ==
    [c EXCEPT !.name = IF updateData.name # {} THEN The(updateData.name) ELSE @,
              !.type = IF updateData.type # {} THEN The(updateData.type)
                                               ELSE "income"]

\* update categories set updateData where id = ...: the row with the
\* supplied fields replaced
SetCategory(c, updateData) ==
    [c EXCEPT !.name = IF updateData.name # {} THEN The(updateData.name) ELSE @,
              !.type = IF updateData.type # {} THEN The(updateData.type) ELSE @]

\* the handler without its early return: the empty updateData reaches
\* db.update(...).set({}), which the query builder rejects
UpdateCategoryWithoutEarlyReturn(p, input) ==
    LET existing == CategoriesWithId(categoriesTable, input.id)
        updated  == {SetCategory(c, input) : c \in existing}
        call     == Started("updateCategory", input, "idle")
    IN  /\ NotInFlight(p)
        /\ IF input.name = {} /\ input.type = {}
           THEN /\ categoriesTable' = categoriesTable
                /\ calls' = [calls EXCEPT ![p] =
                      Done(call, StoreError("updateCategory", input.id))]
           ELSE /\ categoriesTable' = (categoriesTable \ existing) \cup updated
                /\ calls' = [calls EXCEPT ![p] =
                      IF updated = {}
                      THEN Done(call, CategoryNotFound("updateCategory", input.id))
                      ELSE Done(call, Returned("updateCategory", The(updated)))]
        /\ UNCHANGED <<transactionsTable, categoriesIdSeq, transactionsIdSeq, now>>

\* updateCategory, its one statement: a select when no field is supplied,
\* update ... where id = ... returning otherwise
UpdateCategory(p, input) ==
    LET existing == CategoriesWithId(categoriesTable, input.id)
        updated  == {SetCategory(c, input) : c \in existing}
        call     == Started("updateCategory", input, "idle")
    IN  /\ NotInFlight(p)
        /\ IF input.name = {} /\ input.type = {}
           THEN \* no fields to update: fetch and return the existing category
                /\ categoriesTable' = categoriesTable
                /\ calls' = [calls EXCEPT ![p] =
                      IF existing = {}
                      THEN Done(call, CategoryNotFound("updateCategory", input.id))
                      ELSE Done(call, Returned("updateCategory", The(existing)))]
           ELSE /\ categoriesTable' = (categoriesTable \ existing) \cup updated
                /\ calls' = [calls EXCEPT ![p] =
                      IF updated = {}
                      THEN Done(call, CategoryNotFound("updateCategory", input.id))
                      ELSE Done(call, Returned("updateCategory", The(updated)))]
        /\ UNCHANGED <<transactionsTable, categoriesIdSeq, transactionsIdSeq, now>>

\* the message built without the length of existingTransactions
ReferentialConflictUncounted(op, id, n) ==
    Outcome(op, "ReferentialConflict", "category", id, 1, FALSE, {})

\* throw new Error(`Cannot delete category. ${n} transaction(s) are associated ...`)
ReferentialConflict(op, id, n) ==
    Outcome(op, "ReferentialConflict", "category", id, n, FALSE, {})

\* return { success: true } / { success: false }
Success(op, id, success) == Outcome(op, "none", "none", id, 0, success, {})

\* the delete issued without its where clause
DeleteFromCategoriesNoWhere(cats, txns, id) ==
    IF TransactionsOfCategory(txns, id) # {}
    THEN [error |-> TRUE, categories |-> cats]
    ELSE [error |-> FALSE, categories |-> {}]

\* delete from categories where id = ...: refused by the foreign key of
\* transactions.category_id while a transaction row references the category
DeleteFromCategories(cats, txns, id) ==
    IF TransactionsOfCategory(txns, id) # {}
    THEN [error |-> TRUE, categories |-> cats]
    ELSE [error |-> FALSE, categories |-> cats \ CategoriesWithId(cats, id)]

\* deleteCategory, first statement: select the category
DeleteCategorySelectCategory(p, id) ==
    /\ NotInFlight(p)
    /\ calls' = [calls EXCEPT ![p] =
          IF CategoriesWithId(categoriesTable, id) = {}
          THEN Done(Started("deleteCategory", [id |-> id], "idle"),
                    CategoryNotFound("deleteCategory", id))
          ELSE Started("deleteCategory", [id |-> id], "selectTransactions")]
    /\ UNCHANGED <<categoriesTable, transactionsTable, categoriesIdSeq,
                   transactionsIdSeq, now>>

\* deleteCategory, second statement: select the transactions of the category
DeleteCategorySelectTransactions(p) ==
    LET call == calls[p]
        existingTransactions ==
            TransactionsOfCategory(transactionsTable, call.input.id)
    IN  /\ call.op = "deleteCategory"
        /\ call.pc = "selectTransactions"
        /\ calls' = [calls EXCEPT ![p] =
              IF Cardinality(existingTransactions) > 0
              THEN Done(call, ReferentialConflict("deleteCategory", call.input.id,
                                          Cardinality(existingTransactions)))
              ELSE [call EXCEPT !.pc = "delete"]]
        /\ UNCHANGED <<categoriesTable, transactionsTable, categoriesIdSeq,
                       transactionsIdSeq, now>>

\* deleteCategory, third statement: delete ... where id = ...; the handler
\* returns success: true whatever the number of rows deleted
DeleteCategoryDelete(p) ==
    LET call    == calls[p]
        deleted == DeleteFromCategories(categoriesTable, transactionsTable,
                                        call.input.id)
    IN  /\ call.op = "deleteCategory"
        /\ call.pc = "delete"
        /\ categoriesTable' = deleted.categories
        /\ calls' = [calls EXCEPT ![p] =
              IF deleted.error
              THEN Done(call, StoreError("deleteCategory", call.input.id))
              ELSE Done(call, Success("deleteCategory", call.input.id, TRUE))]
        /\ UNCHANGED <<transactionsTable, categoriesIdSeq, transactionsIdSeq, now>>

(***************************************************************************)
(* Transaction handlers.                                                   *)
(***************************************************************************)
CreateTransactionInputs ==
    [amount : Amounts, description : Descriptions, date : Dates,
     category_id : PositiveCategoryIds, type : transactionTypeEnum]

\* the message built from a field the input does not have
CategoryIDNotFoundUnnamed(op, id) == CategoryNotFound(op, 0)

\* throw new Error(`Category with ID ${input.category_id} not found`)
CategoryIDNotFound(op, id) == CategoryNotFound(op, id)

\* an insert that also refuses a kind other than the kind of the category
InsertRefusedOnKindMismatch(cats, values) ==
    \/ NumericOverflow(values.amount)
    \/ CategoriesWithId(cats, values.category_id) = {}
    \/ \E c \in CategoriesWithId(cats, values.category_id) : c.type # values.type

\* an insert the store does not check against the foreign key
InsertRefusedNoForeignKey(cats, values) == NumericOverflow(values.amount)

\* insert into transactions values (...): refused when the amount does not
\* fit numeric(10,2) or category_id matches no category row
InsertRefused(cats, values) ==
    \/ NumericOverflow(values.amount)
    \/ CategoriesWithId(cats, values.category_id) = {}

\* the row the insert stores: id from the serial sequence, created_at from
\* defaultNow(), the amount rounded to the column's scale
InsertedTransaction(values, id, time) ==
    [id |-> id, amount |-> RoundToScale(values.amount),
     description |-> values.description, date |-> values.date,
     category_id |-> values.category_id, type |-> values.type,
     created_at |-> time]

\* createTransaction, first statement: select the category
CreateTransactionSelectCategory(p, input) ==
    LET category == CategoriesWithId(categoriesTable, input.category_id)
    IN  /\ NotInFlight(p)
        /\ calls' = [calls EXCEPT ![p] =
              IF category = {}
              THEN Done(Started("createTransaction", input, "idle"),
                        CategoryIDNotFound("createTransaction", input.category_id))
              ELSE [Started("createTransaction", input, "insert")
                       EXCEPT !.category = category]]
        /\ UNCHANGED <<categoriesTable, transactionsTable, categoriesIdSeq,
                       transactionsIdSeq, now>>

\* the insert taking the id after the highest id stored, not the next
\* value of the sequence
CreateTransactionInsertReusingIds(p) ==
    LET call        == calls[p]
        free        == CHOOSE n \in 1..(MaxTransactionId + 1) :
                          \A t \in transactionsTable : t.id < n
        transaction == InsertedTransaction(call.input, free, now)
    IN  /\ call.op = "createTransaction"
        /\ call.pc = "insert"
        /\ IF InsertRefused(categoriesTable, call.input)
           THEN /\ UNCHANGED <<transactionsTable, transactionsIdSeq>>
                /\ calls' = [calls EXCEPT ![p] =
                      Done(call, StoreError("createTransaction",
                                            call.input.category_id))]
           ELSE /\ transactionsIdSeq < MaxTransactionId
                /\ transactionsTable' = transactionsTable \cup {transaction}
                /\ transactionsIdSeq' = transactionsIdSeq + 1
                /\ calls' = [calls EXCEPT ![p] =
                      Done(call, Returned("createTransaction",
                              TransactionWithCategory(transaction,
                                                      The(call.category))))]
        /\ UNCHANGED <<categoriesTable, categoriesIdSeq, now>>

\* createTransaction, second statement: insert ... returning; the name
\* returned is the one read by the first statement
CreateTransactionInsert(p) ==
    LET call        == calls[p]
        transaction == InsertedTransaction(call.input, transactionsIdSeq + 1, now)
    IN  /\ call.op = "createTransaction"
        /\ call.pc = "insert"
        /\ IF InsertRefused(categoriesTable, call.input)
           THEN \* whether a refused insert has drawn from the sequence is
                \* left open
                /\ UNCHANGED transactionsTable
                /\ transactionsIdSeq' \in
                       {transactionsIdSeq} \cup
                       {n \in {transactionsIdSeq + 1} : n <= MaxTransactionId}
                /\ calls' = [calls EXCEPT ![p] =
                      Done(call, StoreError("createTransaction",
                                            call.input.category_id))]
           ELSE /\ transactionsIdSeq < MaxTransactionId
                /\ transactionsTable' = transactionsTable \cup {transaction}
                /\ transactionsIdSeq' = transactionsIdSeq + 1
                /\ calls' = [calls EXCEPT ![p] =
                      Done(call, Returned("createTransaction",
                              TransactionWithCategory(transaction,
                                                      The(call.category))))]
        /\ UNCHANGED <<categoriesTable, categoriesIdSeq, now>>

UpdateTransactionInputs ==
    [id : TransactionIdInputs, amount : Opt(Amounts),
     description : Opt(Descriptions), date : Opt(Dates),
     category_id : Opt(PositiveCategoryIds), type : Opt(transactionTypeEnum)]

\* the keys of updateData: the fields of the input that are not undefined
UpdateDataKeys(input) ==
    {k \in {"amount", "description", "date", "category_id", "type"} :
        input[k] # {}}

\* a field that is not supplied replaced by a default
\* (input.description || 'Placeholder Description')
SetTransactionDefaulting(t, updateData) ==
    [t EXCEPT
       !.amount = IF updateData.amount # {}
                  THEN RoundToScale(The(updateData.amount)) ELSE @,
       !.description = IF updateData.description # {}
                       THEN The(updateData.description) ELSE "Lunch",
       !.date = IF updateData.date # {} THEN The(updateData.date) ELSE @,
       !.category_id = IF updateData.category_id # {}
                       THEN The(updateData.category_id) ELSE @,
       !.type = IF updateData.type # {} THEN The(updateData.type) ELSE @]

\* update transactions set updateData: the row with the supplied fields
\* replaced, the amount rounded to the column's scale
SetTransaction(t, updateData) ==
    [t EXCEPT
       !.amount = IF updateData.amount # {}
                  THEN RoundToScale(The(updateData.amount)) ELSE @,
       !.description = IF updateData.description # {}
                       THEN The(updateData.description) ELSE @,
       !.date = IF updateData.date # {} THEN The(updateData.date) ELSE @,
       !.category_id = IF updateData.category_id # {}
                       THEN The(updateData.category_id) ELSE @,
       !.type = IF updateData.type # {} THEN The(updateData.type) ELSE @]

\* updateTransaction, first statement: select the transaction
UpdateTransactionSelectTransaction(p, input) ==
    /\ NotInFlight(p)
    /\ calls' = [calls EXCEPT ![p] =
          IF TransactionsWithId(transactionsTable, input.id) = {}
          THEN Done(Started("updateTransaction", input, "idle"),
                    TransactionNotFound("updateTransaction", input.id))
          ELSE Started("updateTransaction", input,
                       IF input.category_id # {} THEN "selectCategory"
                                                 ELSE "update")]
    /\ UNCHANGED <<categoriesTable, transactionsTable, categoriesIdSeq,
                   transactionsIdSeq, now>>

\* the category select with its result not examined
UpdateTransactionSelectCategoryUnchecked(p) ==
    LET call == calls[p]
    IN  /\ call.op = "updateTransaction"
        /\ call.pc = "selectCategory"
        /\ calls' = [calls EXCEPT ![p] = [call EXCEPT !.pc = "update"]]
        /\ UNCHANGED <<categoriesTable, transactionsTable, categoriesIdSeq,
                       transactionsIdSeq, now>>

\* updateTransaction, second statement, made when category_id is supplied:
\* select the category
UpdateTransactionSelectCategory(p) ==
    LET call == calls[p]
    IN  /\ call.op = "updateTransaction"
        /\ call.pc = "selectCategory"
        /\ calls' = [calls EXCEPT ![p] =
              IF \E c \in call.input.category_id :
                    CategoriesWithId(categoriesTable, c) = {}
              THEN Done(call, CategoryNotFound("updateTransaction",
                                               The(call.input.category_id)))
              ELSE [call EXCEPT !.pc = "update"]]
        /\ UNCHANGED <<categoriesTable, transactionsTable, categoriesIdSeq,
                       transactionsIdSeq, now>>

\* the update statement is refused when updateData is empty ("No values to
\* set") or its amount does not fit numeric(10,2), and, if a row has the id,
\* when the new category_id matches no category row
UpdateStatementRefused(txns, cats, input) ==
    \/ UpdateDataKeys(input) = {}
    \/ \E a \in input.amount : NumericOverflow(a)
    \/ /\ TransactionsWithId(txns, input.id) # {}
       /\ \E c \in input.category_id : CategoriesWithId(cats, c) = {}

\* updateTransaction, third statement: update ... where id = ... returning;
\* it updates no row, and raises no error, when no row has the id any more
UpdateTransactionUpdate(p) ==
    LET call     == calls[p]
        existing == TransactionsWithId(transactionsTable, call.input.id)
        updated  == {SetTransaction(t, call.input) : t \in existing}
    IN  /\ call.op = "updateTransaction"
        /\ call.pc = "update"
        /\ IF UpdateStatementRefused(transactionsTable, categoriesTable, call.input)
           THEN /\ UNCHANGED transactionsTable
                /\ calls' = [calls EXCEPT ![p] =
                      Done(call, StoreError("updateTransaction", call.input.id))]
           ELSE /\ transactionsTable' = (transactionsTable \ existing) \cup updated
                /\ calls' = [calls EXCEPT ![p] =
                      [call EXCEPT !.pc = "reread",
                                   !.updated = Cardinality(updated)]]
        /\ UNCHANGED <<categoriesTable, categoriesIdSeq, transactionsIdSeq, now>>

\* updateTransaction, fourth statement: select the row joined with its
\* category; result[0] is undefined when no row has the id, and reading its
\* amount throws a TypeError
UpdateTransactionReread(p) ==
    LET call   == calls[p]
        result == JoinedTransactionsWithId(transactionsTable, categoriesTable,
                                           call.input.id)
    IN  /\ call.op = "updateTransaction"
        /\ call.pc = "reread"
        /\ calls' = [calls EXCEPT ![p] =
              IF result = {}
              THEN Done(call, Outcome("updateTransaction", "TypeError", "none",
                                      call.input.id, 0, FALSE, {}))
              ELSE Done(call, Returned("updateTransaction", The(result)))]
        /\ UNCHANGED <<categoriesTable, transactionsTable, categoriesIdSeq,
                       transactionsIdSeq, now>>

\* the delete issued without its where clause
DeleteFromTransactionsNoWhere(txns, id) == {}

\* delete from transactions where id = ...
DeleteFromTransactions(txns, id) == txns \ TransactionsWithId(txns, id)

\* success computed from rowCount !== null alone
RowCountNotNull(txns, id) == 1

\* result.rowCount
RowCount(txns, id) == Cardinality(TransactionsWithId(txns, id))

\* the call returning success whatever the statement deleted
DeleteTransactionUncounted(p, id) ==
    /\ NotInFlight(p)
    /\ transactionsTable' = DeleteFromTransactions(transactionsTable, id)
    /\ calls' = [calls EXCEPT ![p] =
          Done(Started("deleteTransaction", [id |-> id], "idle"),
               Success("deleteTransaction", id, TRUE))]
    /\ UNCHANGED <<categoriesTable, categoriesIdSeq, transactionsIdSeq, now>>

\* deleteTransaction, its one statement: delete ... where id = ...
DeleteTransaction(p, id) ==
    /\ NotInFlight(p)
    /\ transactionsTable' = DeleteFromTransactions(transactionsTable, id)
    /\ calls' = [calls EXCEPT ![p] =
          Done(Started("deleteTransaction", [id |-> id], "idle"),
               Success("deleteTransaction", id, RowCount(transactionsTable, id) > 0))]
    /\ UNCHANGED <<categoriesTable, categoriesIdSeq, transactionsIdSeq, now>>

(***************************************************************************)
(* Sequences of calls from the empty store, each awaited before the next   *)
(* is made: client 1 makes them all, and last is the outcome of its call   *)
(* once that has returned or thrown.  The fields no handler branches on    *)
(* (description, date, type of a transaction) are drawn together, as one   *)
(* of two payloads.                                                        *)
(***************************************************************************)
Payloads ==
    { [description |-> "Lunch", date |-> 0, type |-> "income"],
      [description |-> "Bonus", date |-> MaxDate, type |-> "expense"] }

SeqCreateTransactionInputs ==
    {input \in CreateTransactionInputs :
        \E p \in Payloads : /\ input.description = p.description
                            /\ input.date = p.date
                            /\ input.type = p.type}

SeqUpdateTransactionInputs ==
    {input \in UpdateTransactionInputs :
        \/ input.description = {} /\ input.date = {} /\ input.type = {}
        \/ \E p \in Payloads : /\ input.description = {p.description}
                               /\ input.date = {p.date}
                               /\ input.type = {p.type}}

\* the client that awaits each of its calls
Client == 1

\* what the client holds of its call: no outcome until it returns or throws
Awaited == last' = calls'[Client].outcome

Next ==
    \/ \E input \in CreateCategoryInputs :
          /\ CreateCategory(Client, input)
          /\ Awaited /\ UNCHANGED <<args, form, before>>
    \/ \E input \in UpdateCategoryInputs :
          /\ UpdateCategory(Client, input)
          /\ Awaited /\ UNCHANGED <<args, form, before>>
    \/ \E id \in CategoryIdInputs :
          /\ DeleteCategorySelectCategory(Client, id)
          /\ Awaited /\ UNCHANGED <<args, form, before>>
    \/ /\ DeleteCategorySelectTransactions(Client)
       /\ Awaited /\ UNCHANGED <<args, form, before>>
    \/ /\ DeleteCategoryDelete(Client)
       /\ Awaited /\ UNCHANGED <<args, form, before>>
    \/ \E input \in SeqCreateTransactionInputs :
          /\ CreateTransactionSelectCategory(Client, input)
          /\ Awaited /\ UNCHANGED <<args, form, before>>
    \/ /\ CreateTransactionInsert(Client)
       /\ Awaited /\ UNCHANGED <<args, form, before>>
    \/ \E input \in SeqUpdateTransactionInputs :
          /\ UpdateTransactionSelectTransaction(Client, input)
          /\ Awaited /\ UNCHANGED <<args, form, before>>
    \/ /\ UpdateTransactionSelectCategory(Client)
       /\ Awaited /\ UNCHANGED <<args, form, before>>
    \/ /\ UpdateTransactionUpdate(Client)
       /\ Awaited /\ UNCHANGED <<args, form, before>>
    \/ /\ UpdateTransactionReread(Client)
       /\ Awaited /\ UNCHANGED <<args, form, before>>
    \/ \E id \in TransactionIdInputs :
          /\ DeleteTransaction(Client, id)
          /\ Awaited /\ UNCHANGED <<args, form, before>>

Spec == Init /\ [][Next]_vars

(***************************************************************************)
(* One call, with any input, on any of a family of stores the handlers can *)
(* build: any set of categories, any set of transactions each referencing  *)
(* one of them, rows created at time 0, the call made at any later time.   *)
(* before holds the two tables as they are when the call is made, args the *)
(* input it is made with, last its outcome once it has returned or thrown. *)
(***************************************************************************)
InitCategoryRow(id) ==
    [id |-> id,
     name |-> IF id % 2 = 1 THEN "Salary" ELSE "Food",
     type |-> IF id % 2 = 1 THEN "income" ELSE "expense",
     created_at |-> 0]

InitTransactionRow(id, category_id) ==
    InsertedTransaction(
        [amount |-> IF id % 2 = 1 THEN [units |-> 1, mills |-> 5]
                                  ELSE [units |-> 0, mills |-> 1],
         description |-> IF id % 2 = 1 THEN "Lunch" ELSE "Bonus",
         date |-> IF id % 2 = 1 THEN 0 ELSE MaxDate,
         category_id |-> category_id,
         type |-> IF id % 2 = 1 THEN "income" ELSE "expense"],
        id, 0)

InitCall ==
    \E C \in SUBSET PositiveCategoryIds, T \in SUBSET (1..MaxTransactionId) :
      \E f \in [T -> C] :
        /\ categoriesTable = {InitCategoryRow(c) : c \in C}
        /\ transactionsTable = {InitTransactionRow(t, f[t]) : t \in T}
        /\ categoriesIdSeq \in {n \in 0..MaxCategoryId : \A c \in C : c <= n}
        /\ transactionsIdSeq \in {n \in 0..MaxTransactionId : \A t \in T : t <= n}
        /\ now \in Times
        /\ last = Outcome("init", "none", "none", 0, 0, FALSE, {})
        /\ args = <<>>
        /\ calls = [p \in Procs |-> Idle]
        /\ form = <<>>
        /\ before = [categories |-> categoriesTable,
                     transactions |-> transactionsTable]

\* the call has not been made yet
CallPending == calls[Client].pc = "idle"

NextCall ==
    \/ CallPending /\ \E input \in CreateCategoryInputs :
          /\ CreateCategory(Client, input)
          /\ Awaited /\ args' = input /\ UNCHANGED <<form, before>>
    \/ CallPending /\ \E input \in UpdateCategoryInputs :
          /\ UpdateCategory(Client, input)
          /\ Awaited /\ args' = input /\ UNCHANGED <<form, before>>
    \/ CallPending /\ \E id \in CategoryIdInputs :
          /\ DeleteCategorySelectCategory(Client, id)
          /\ Awaited /\ args' = [id |-> id] /\ UNCHANGED <<form, before>>
    \/ /\ DeleteCategorySelectTransactions(Client)
       /\ Awaited /\ UNCHANGED <<args, form, before>>
    \/ /\ DeleteCategoryDelete(Client)
       /\ Awaited /\ UNCHANGED <<args, form, before>>
    \/ CallPending /\ \E input \in CreateTransactionInputs :
          /\ CreateTransactionSelectCategory(Client, input)
          /\ Awaited /\ args' = input /\ UNCHANGED <<form, before>>
    \/ /\ CreateTransactionInsert(Client)
       /\ Awaited /\ UNCHANGED <<args, form, before>>
    \/ CallPending /\ \E input \in UpdateTransactionInputs :
          /\ UpdateTransactionSelectTransaction(Client, input)
          /\ Awaited /\ args' = input /\ UNCHANGED <<form, before>>
    \/ /\ UpdateTransactionSelectCategory(Client)
       /\ Awaited /\ UNCHANGED <<args, form, before>>
    \/ /\ UpdateTransactionUpdate(Client)
       /\ Awaited /\ UNCHANGED <<args, form, before>>
    \/ /\ UpdateTransactionReread(Client)
       /\ Awaited /\ UNCHANGED <<args, form, before>>
    \/ CallPending /\ \E id \in TransactionIdInputs :
          /\ DeleteTransaction(Client, id)
          /\ Awaited /\ args' = [id |-> id] /\ UNCHANGED <<form, before>>

SpecCall == InitCall /\ [][NextCall]_vars

(***************************************************************************)
(* Read handlers.  An array a handler returns is a sequence; where the     *)
(* query has no ORDER BY, or rows tie under it, the store may return the   *)
(* rows in any order.                                                      *)
(***************************************************************************)
\* the rows of S, each once, in any order
RowsInAnyOrder(S) ==
    {s \in [1..Cardinality(S) -> S] : \A x \in S : \E i \in DOMAIN s : s[i] = x}

\* input?.field of an input that may be undefined
Field(input, k) == IF input = {} THEN {} ELSE The(input)[k]

\* if (input?.category_id): a number is truthy unless it is 0
TruthyNumber(n) == n # 0

GetTransactionsFilters ==
    [start_date : Opt(Dates), end_date : Opt(Dates),
     type : Opt(transactionTypeEnum), category_id : Opt(CategoryIdInputs)]

\* getTransactionsInputSchema: the filter object, or undefined
GetTransactionsInputs == Opt(GetTransactionsFilters)

\* the conditions with the start of the range excluded: gt in place of gte
ConditionsStartExcluded(t, input) ==
    /\ \A d \in Field(input, "start_date") : t.date > d
    /\ \A d \in Field(input, "end_date") : t.date <= d
    /\ \A k \in Field(input, "type") : t.type = k
    /\ \A c \in {n \in Field(input, "category_id") : TruthyNumber(n)} :
          t.category_id = c

\* and(...conditions): the conditions pushed for the fields of the input
\* that are truthy (a Date and a kind always are)
Conditions(t, input) ==
    /\ \A d \in Field(input, "start_date") : t.date >= d
    /\ \A d \in Field(input, "end_date") : t.date <= d
    /\ \A k \in Field(input, "type") : t.type = k
    /\ \A c \in {n \in Field(input, "category_id") : TruthyNumber(n)} :
          t.category_id = c

\* transactions inner join categories on category_id = categories.id
\* where conditions
JoinedTransactionsWhere(txns, cats, input) ==
    {TransactionWithCategory(p[1], p[2]) :
        p \in {q \in {t \in txns : Conditions(t, input)} \X cats :
                 q[1].category_id = q[2].id}}

\* the rows returned in whatever order the store produces them
OrderByNothing(rows) == RowsInAnyOrder(rows)

\* order by transactions.date, ascending; rows of equal date in any order
OrderByDate(rows) ==
    {s \in RowsInAnyOrder(rows) :
        \A i \in 1..(Len(s) - 1) : s[i].date <= s[i + 1].date}

\* a call that returns an array
ReturnedArray(op, rows) == Outcome(op, "none", "none", 0, Len(rows), TRUE, rows)

GetTransactions(input) ==
    /\ \E results \in OrderByDate(JoinedTransactionsWhere(transactionsTable,
                                                         categoriesTable, input)) :
          last' = ReturnedArray("getTransactions", results)
    /\ UNCHANGED <<categoriesTable, transactionsTable, categoriesIdSeq,
                   transactionsIdSeq, now>>

\* getCategories(type?): a kind is a non-empty string, truthy when supplied
GetCategoriesInputs == Opt(transactionTypeEnum)

\* the query without its where clause
CategoriesUnfiltered(cats, type) == cats

CategoriesWhere(cats, type) ==
    IF type # {} THEN {c \in cats : c.type = The(type)} ELSE cats

GetCategories(type) ==
    /\ \E results \in RowsInAnyOrder(CategoriesWhere(categoriesTable, type)) :
          last' = ReturnedArray("getCategories", results)
    /\ UNCHANGED <<categoriesTable, transactionsTable, categoriesIdSeq,
                   transactionsIdSeq, now>>

(***************************************************************************)
(* Reports.  A JavaScript number that may be negative keeps the form       *)
(* [units, mills] with mills in 0..999: its value is units + mills/1000.   *)
(***************************************************************************)
DateRanges == [start_date : Dates, end_date : Dates]

\* the range with its end excluded: lt in place of lte
InDateRangeEndExcluded(t, dateRange) ==
    t.date >= dateRange.start_date /\ t.date < dateRange.end_date

\* gte(transactions.date, start_date) and lte(transactions.date, end_date)
InDateRange(t, dateRange) ==
    t.date >= dateRange.start_date /\ t.date <= dateRange.end_date

\* sum(transactions.amount) over a group of rows: exact numeric addition
RECURSIVE SumAmount(_)
SumAmount(rows) ==
    IF rows = {}
    THEN [units |-> 0, cents |-> 0]
    ELSE LET r == CHOOSE x \in rows : TRUE
             s == SumAmount(rows \ {r})
             c == s.cents + r.amount.cents
         IN  [units |-> s.units + r.amount.units + c \div 100, cents |-> c % 100]

\* a - b on numbers
Minus(a, b) ==
    LET m == a.mills - b.mills
    IN  IF m < 0 THEN [units |-> a.units - b.units - 1, mills |-> m + 1000]
                 ELSE [units |-> a.units - b.units, mills |-> m]

\* Math.round(x * 100) / 100: to the nearest cent, a half towards +infinity
RoundToCents(x) ==
    LET c == (x.mills + 5) \div 10
    IN  IF c = 100 THEN [units |-> x.units + 1, mills |-> 0]
                   ELSE [units |-> x.units, mills |-> c * 10]

\* the query without its where clause
SummaryGroupsUnfiltered(txns, dateRange) ==
    {[type |-> k,
      total_amount |-> SumAmount({t \in txns : t.type = k}),
      transaction_count |-> Cardinality({t \in txns : t.type = k})] :
        k \in {t.type : t \in txns}}

\* select type, sum(amount), count(id) from transactions where date in range
\* group by type: one row for each kind that has a row in the range
SummaryGroups(txns, dateRange) ==
    {[type |-> k,
      total_amount |-> SumAmount({t \in txns : InDateRange(t, dateRange)
                                                 /\ t.type = k}),
      transaction_count |-> Cardinality({t \in txns : InDateRange(t, dateRange)
                                                         /\ t.type = k})] :
        k \in {t.type : t \in {x \in txns : InDateRange(x, dateRange)}}}

\* the loop over the groups: the amount and the count of the group of kind k,
\* 0 when the query returned no such group
GroupTotal(groups, k) ==
    IF \E g \in groups : g.type = k
    THEN parseFloat((CHOOSE g \in groups : g.type = k).total_amount)
    ELSE [units |-> 0, mills |-> 0]

GroupCount(groups, k) ==
    IF \E g \in groups : g.type = k
    THEN (CHOOSE g \in groups : g.type = k).transaction_count
    ELSE 0

\* net_amount computed as total_expense - total_income
ReportSummaryNetReversed(txns, dateRange) ==
    LET groups        == SummaryGroups(txns, dateRange)
        total_income  == GroupTotal(groups, "income")
        total_expense == GroupTotal(groups, "expense")
    IN  [total_income  |-> RoundToCents(total_income),
         total_expense |-> RoundToCents(total_expense),
         net_amount    |-> RoundToCents(Minus(total_expense, total_income)),
         transactions_count |-> GroupCount(groups, "income")
                                  + GroupCount(groups, "expense"),
         period |-> [start_date |-> dateRange.start_date,
                     end_date |-> dateRange.end_date]]

\* the summary getReportSummary returns
ReportSummary(txns, dateRange) ==
    LET groups        == SummaryGroups(txns, dateRange)
        total_income  == GroupTotal(groups, "income")
        total_expense == GroupTotal(groups, "expense")
    IN  [total_income  |-> RoundToCents(total_income),
         total_expense |-> RoundToCents(total_expense),
         net_amount    |-> RoundToCents(Minus(total_income, total_expense)),
         transactions_count |-> GroupCount(groups, "income")
                                  + GroupCount(groups, "expense"),
         period |-> [start_date |-> dateRange.start_date,
                     end_date |-> dateRange.end_date]]

GetReportSummary(dateRange) ==
    /\ last' = Outcome("getReportSummary", "none", "none", 0, 1, TRUE,
                       {ReportSummary(transactionsTable, dateRange)})
    /\ UNCHANGED <<categoriesTable, transactionsTable, categoriesIdSeq,
                   transactionsIdSeq, now>>

\* the report taken from categories left join transactions: a row for every
\* category, zero-filled when it has no transaction in the range
CategoryReportRowsZeroFilled(txns, cats, dateRange) ==
    {[category_id |-> c.id, category_name |-> c.name, type |-> c.type,
      total_amount |->
          parseFloat(SumAmount({t \in txns : InDateRange(t, dateRange)
                                               /\ t.category_id = c.id})),
      transactions_count |->
          Cardinality({t \in txns : InDateRange(t, dateRange)
                                      /\ t.category_id = c.id})] :
        c \in cats}

\* select categories.id, name, type, sum(amount), count(id) from transactions
\* inner join categories where date in range group by categories.id, name,
\* type: one row for each category that has a row in the range
CategoryReportRows(txns, cats, dateRange) ==
    {[category_id |-> c.id, category_name |-> c.name, type |-> c.type,
      total_amount |->
          parseFloat(SumAmount({t \in txns : InDateRange(t, dateRange)
                                               /\ t.category_id = c.id})),
      transactions_count |->
          Cardinality({t \in txns : InDateRange(t, dateRange)
                                      /\ t.category_id = c.id})] :
        c \in {k \in cats : \E t \in txns : InDateRange(t, dateRange)
                                              /\ t.category_id = k.id}}

GetCategoryReport(dateRange) ==
    /\ \E results \in RowsInAnyOrder(CategoryReportRows(transactionsTable,
                                                      categoriesTable, dateRange)) :
          last' = ReturnedArray("getCategoryReport", results)
    /\ UNCHANGED <<categoriesTable, transactionsTable, categoriesIdSeq,
                   transactionsIdSeq, now>>

(***************************************************************************)
(* Export.  A model date d is the instant d half-days after                *)
(* 2024-01-31T12:00:00Z; DateOf gives the day (counted from 1970-01-01) and *)
(* the millisecond of the day a JavaScript Date holds for it.              *)
(***************************************************************************)
EpochDay == 19753
MsPerHalfDay == 43200000

DateOf(d) ==
    [day |-> EpochDay + (d + 1) \div 2, ms |-> ((d + 1) % 2) * MsPerHalfDay]

\* the UTC calendar date of a day number: year, month, day of month
CivilFromDays(days) ==
    LET z   == days + 719468
        era == z \div 146097
        doe == z - era * 146097
        yoe == (doe - doe \div 1460 + doe \div 36524 - doe \div 146096) \div 365
        doy == doe - (365 * yoe + yoe \div 4 - yoe \div 100)
        mp  == (5 * doy + 2) \div 153
        m   == IF mp < 10 THEN mp + 3 ELSE mp - 9
    IN  [year  |-> yoe + era * 400 + (IF m <= 2 THEN 1 ELSE 0),
         month |-> m,
         day   |-> doy - (153 * mp + 2) \div 5 + 1]

\* a number in at least 2 digits
Pad2(n) == IF n < 10 THEN "0" \o ToString(n) ELSE ToString(n)

\* a year in 4 digits (years 0..9999)
Pad4(n) ==
    IF n < 10 THEN "000" \o ToString(n)
    ELSE IF n < 100 THEN "00" \o ToString(n)
    ELSE IF n < 1000 THEN "0" \o ToString(n)
    ELSE ToString(n)

\* date.toISOString().split('T')[0]: the UTC date, the time of day dropped
ISODateString(date) ==
    LET c == CivilFromDays(date.day)
    IN  Pad4(c.year) \o "-" \o Pad2(c.month) \o "-" \o Pad2(c.day)

\* `financial_report_${startDateStr}_to_${endDateStr}.xlsx`
Filename(dateRange) ==
    "financial_report_" \o ISODateString(DateOf(dateRange.start_date))
        \o "_to_" \o ISODateString(DateOf(dateRange.end_date)) \o ".xlsx"

\* the placeholder url, which does not name the file
FileUrlPlaceholder(filename) == "/exports/report.xlsx"

\* `/exports/${filename}`
FileUrl(filename) == "/exports/" \o filename

\* exportExcelReport: the three selects it makes over the range fill
\* reportData, which is dropped; only the names are returned
ExportExcelReport(dateRange) ==
    /\ last' = Outcome("exportExcelReport", "none", "none", 0, 1, TRUE,
                       {[file_url |-> FileUrl(Filename(dateRange)),
                         filename |-> Filename(dateRange)]})
    /\ UNCHANGED <<categoriesTable, transactionsTable, categoriesIdSeq,
                   transactionsIdSeq, now>>

(***************************************************************************)
(* One read, with any input, on any of a family of stores the handlers can *)
(* build: categories of any name and kind, transactions of any date, kind  *)
(* and category (the kind of a transaction need not be the kind of its     *)
(* category), amounts drawn from StoredAmounts.                            *)
(***************************************************************************)
\* 1234.56, 0.01 and 0.99 as stored in the numeric(10,2) column
StoredAmounts ==
    { [units |-> 1234, cents |-> 56],
      [units |-> 0, cents |-> 1],
      [units |-> 0, cents |-> 99] }

StoredCategoryRows(id) ==
    [id : {id}, name : Names, type : transactionTypeEnum, created_at : {0}]

StoredTransactionRows(id, categoryIds) ==
    [id : {id}, amount : StoredAmounts,
     description : {IF id % 2 = 1 THEN "Lunch" ELSE "Bonus"},
     date : Dates, category_id : categoryIds, type : transactionTypeEnum,
     created_at : {0}]

InitRead ==
    \E C \in SUBSET PositiveCategoryIds, T \in SUBSET (1..MaxTransactionId) :
      \E cs \in [C -> UNION {StoredCategoryRows(c) : c \in PositiveCategoryIds}],
         ts \in [T -> UNION {StoredTransactionRows(t, C) :
                               t \in 1..MaxTransactionId}] :
        /\ \A c \in C : cs[c].id = c
        /\ \A t \in T : ts[t].id = t
        /\ categoriesTable = {cs[c] : c \in C}
        /\ transactionsTable = {ts[t] : t \in T}
        /\ categoriesIdSeq = MaxCategoryId
        /\ transactionsIdSeq = MaxTransactionId
        /\ now = MaxTime
        /\ last = Outcome("init", "none", "none", 0, 0, FALSE, {})
        /\ args = <<>>
        /\ calls = [p \in Procs |-> Idle]
        /\ before = <<>>
        /\ form = <<>>

\* the read has not been made yet
ReadPending == last.op = "init"

NextRead ==
    \/ ReadPending /\ \E input \in GetTransactionsInputs :
                         GetTransactions(input) /\ args' = input /\ UNCHANGED <<calls, form, before>>
    \/ ReadPending /\ \E type \in GetCategoriesInputs :
                         GetCategories(type) /\ args' = [type |-> type] /\ UNCHANGED <<calls, form, before>>
    \/ ReadPending /\ \E dateRange \in DateRanges :
                         GetReportSummary(dateRange) /\ args' = dateRange /\ UNCHANGED <<calls, form, before>>
    \/ ReadPending /\ \E dateRange \in DateRanges :
                         GetCategoryReport(dateRange) /\ args' = dateRange /\ UNCHANGED <<calls, form, before>>
    \/ ReadPending /\ \E dateRange \in DateRanges :
                         ExportExcelReport(dateRange) /\ args' = dateRange /\ UNCHANGED <<calls, form, before>>

SpecRead == InitRead /\ [][NextRead]_vars

(***************************************************************************)
(* Concurrent calls: each of the clients makes one call, and the           *)
(* statements of the calls in flight interleave in any order.  args[p] is  *)
(* the input client p has made its call with.                              *)
(***************************************************************************)
\* the inputs of the concurrent calls: one payload for a new transaction, a
\* new description and at most a new category for an update
ConcCreateTransactionInputs ==
    {input \in SeqCreateTransactionInputs :
        input.amount = [units |-> 1, mills |-> 5] /\ input.description = "Lunch"}

ConcUpdateTransactionInputs ==
    {input \in UpdateTransactionInputs :
        /\ input.amount = {} /\ input.date = {} /\ input.type = {}
        /\ input.description = {"Bonus"}}

InitConc ==
    \E C \in SUBSET PositiveCategoryIds, T \in SUBSET (1..MaxTransactionId) :
      \E f \in [T -> C] :
        /\ categoriesTable = {InitCategoryRow(c) : c \in C}
        /\ transactionsTable = {InitTransactionRow(t, f[t]) : t \in T}
        /\ categoriesIdSeq = MaxCategoryId
        /\ transactionsIdSeq \in {n \in 0..MaxTransactionId : \A t \in T : t <= n}
        /\ now = 0
        /\ last = Outcome("init", "none", "none", 0, 0, FALSE, {})
        /\ args = [p \in Procs |-> <<>>]
        /\ calls = [p \in Procs |-> Idle]
        /\ form = <<>>
        /\ before = <<>>

\* client p has made no call yet
NoCallYet(p) == calls[p].pc = "idle"

NextConc ==
    \/ \E p \in Procs, input \in ConcCreateTransactionInputs :
          /\ NoCallYet(p) /\ CreateTransactionSelectCategory(p, input)
          /\ args' = [args EXCEPT ![p] = input]
          /\ UNCHANGED <<last, form, before>>
    \/ \E p \in Procs :
          /\ CreateTransactionInsert(p)
          /\ UNCHANGED <<last, args, form, before>>
    \/ \E p \in Procs, input \in ConcUpdateTransactionInputs :
          /\ NoCallYet(p) /\ UpdateTransactionSelectTransaction(p, input)
          /\ args' = [args EXCEPT ![p] = input]
          /\ UNCHANGED <<last, form, before>>
    \/ \E p \in Procs :
          /\ UpdateTransactionSelectCategory(p)
          /\ UNCHANGED <<last, args, form, before>>
    \/ \E p \in Procs :
          /\ UpdateTransactionUpdate(p)
          /\ UNCHANGED <<last, args, form, before>>
    \/ \E p \in Procs :
          /\ UpdateTransactionReread(p)
          /\ UNCHANGED <<last, args, form, before>>
    \/ \E p \in Procs, id \in TransactionIdInputs :
          /\ NoCallYet(p) /\ DeleteTransaction(p, id)
          /\ args' = [args EXCEPT ![p] = [id |-> id]]
          /\ UNCHANGED <<last, form, before>>
    \/ \E p \in Procs, id \in CategoryIdInputs :
          /\ NoCallYet(p) /\ DeleteCategorySelectCategory(p, id)
          /\ args' = [args EXCEPT ![p] = [id |-> id]]
          /\ UNCHANGED <<last, form, before>>
    \/ \E p \in Procs :
          /\ DeleteCategorySelectTransactions(p)
          /\ UNCHANGED <<last, args, form, before>>
    \/ \E p \in Procs :
          /\ DeleteCategoryDelete(p)
          /\ UNCHANGED <<last, args, form, before>>

SpecConc == InitConc /\ [][NextConc]_vars

(***************************************************************************)
(* The client's TransactionForm (client/src/components).  form holds the   *)
(* props categories and isLoading, the state formData, submitLoading and   *)
(* error, the argument of an onSubmit call that has not settled yet, and   *)
(* the event handled last.  handleSubmit runs up to its await in one step; *)
(* what follows the await runs when onSubmit resolves or rejects, and the  *)
(* user may edit the fields in between.  A Date is the set of the one      *)
(* instant it holds, the empty set for an Invalid Date.  A render that     *)
(* throws unmounts the form: mounted becomes FALSE and no event reaches it *)
(* any more.  fixed records that every render so far has passed the list   *)
(* of categories the form was mounted with.                                *)
(***************************************************************************)
\* e.target.value of the amount input
AmountTexts == {"", "-1", "0", "0.001"}

\* e.target.value of the description textarea
DescriptionTexts == {"", " ", "Lunch"}

\* e.target.value of the date input: a day, or empty when it is cleared
DateTexts == {"", "2024-01-31", "2024-02-01"}

\* the instants a Date of the form can hold: the clock's, and the midnights
\* the date input gives
FormDates == (-1)..MaxDate

\* new Date(value) of a date-only text: midnight UTC of that day, an Invalid
\* Date for a text that is no date
NewDate(value) ==
    {d \in FormDates : /\ DateOf(d).ms = 0
                       /\ ISODateString(DateOf(d)) = value}

\* formatDateForInput(date): date.toISOString() throws a RangeError on an
\* Invalid Date
FormatDateThrows(date) == date = {}

\* the lists of categories the parent can pass: at most one row for an id,
\* of either kind; the form reads the name only to show it
CategoryLists ==
    {list \in SUBSET
               {row \in UNION {StoredCategoryRows(c) : c \in PositiveCategoryIds} :
                   row.name = InitCategoryRow(row.id).name} :
        \A a, b \in list : a.id = b.id => a = b}

ZeroNumber == [units |-> 0, mills |-> 0]

\* parseFloat(e.target.value): a number, or nothing for NaN
ParseFloatText(value) ==
    CASE value = ""      -> {}
      [] value = "-1"    -> {[units |-> -1, mills |-> 0]}
      [] value = "0"     -> {ZeroNumber}
      [] value = "0.001" -> {[units |-> 0, mills |-> 1]}

\* x || 0: NaN and 0 are falsy
OrZero(x) == IF x = {} \/ x = {ZeroNumber} THEN ZeroNumber ELSE The(x)

\* formData.amount <= 0
AtMostZero(x) == x.units < 0 \/ x = ZeroNumber

\* description.trim()
Trim(description) == IF description = " " THEN "" ELSE description

\* the initial state of formData, and the state it is reset to
DefaultFormData ==
    [amount |-> ZeroNumber, description |-> "", date |-> {now},
     category_id |-> 0, type |-> "expense"]

\* categories.filter(category => category.type === formData.type)
filteredCategories == {c \in form.categories : c.type = form.formData.type}

\* the submit button: disabled={isLoading || submitLoading ||
\* filteredCategories.length === 0}
SubmitDisabled ==
    form.isLoading \/ form.submitLoading \/ filteredCategories = {}

\* setFormData(prev => ({ ...prev, [k]: v })) in the handler of an event
SetFormData(event, k, v) ==
    /\ form.mounted
    /\ form' = [form EXCEPT !.formData = [@ EXCEPT ![k] = v], !.event = event]
    /\ UNCHANGED <<categoriesTable, transactionsTable, categoriesIdSeq,
                   transactionsIdSeq, now, last, args, calls, before>>

handleAmountChange(value) ==
    SetFormData("amountChange", "amount", OrZero(ParseFloatText(value)))

handleDescriptionChange(value) ==
    SetFormData("descriptionChange", "description", value)

\* the date set to new Date(e.target.value); the render that follows
\* formats it, and throws when it is an Invalid Date
handleDateChange(value) ==
    /\ form.mounted
    /\ form' = [form EXCEPT !.formData = [@ EXCEPT !.date = NewDate(value)],
                            !.mounted = ~ FormatDateThrows(NewDate(value)),
                            !.event = "dateChange"]
    /\ UNCHANGED <<categoriesTable, transactionsTable, categoriesIdSeq,
                   transactionsIdSeq, now, last, args, calls, before>>

\* the type changed and the category left as it is
handleTypeChangeKeepingCategory(type) ==
    SetFormData("typeChange", "type", type)

handleTypeChange(type) ==
    /\ form.mounted
    /\ form' = [form EXCEPT !.formData = [@ EXCEPT !.type = type,
                                                    !.category_id = 0],
                            !.event = "typeChange"]
    /\ UNCHANGED <<categoriesTable, transactionsTable, categoriesIdSeq,
                   transactionsIdSeq, now, last, args, calls, before>>

\* the Select lists filteredCategories; choosing an item sets its id
handleCategoryChange(id) ==
    /\ \E c \in filteredCategories : c.id = id
    /\ SetFormData("categoryChange", "category_id", id)

\* the parent renders the form again, with the categories and the
\* isLoading of its state: loadData, handleCreateCategory and
\* handleDeleteCategory set the one, loadData the other; formData is kept,
\* a category_id no longer in the list included
Render(categories, isLoading) ==
    /\ form.mounted
    /\ form' = [form EXCEPT !.categories = categories,
                            !.isLoading = isLoading,
                            !.fixed = @ /\ categories = form.categories,
                            !.event = "render"]
    /\ UNCHANGED <<categoriesTable, transactionsTable, categoriesIdSeq,
                   transactionsIdSeq, now, last, args, calls, before>>

\* the message of the error the validation throws, "" when it passes
ValidationError(formData) ==
    IF AtMostZero(formData.amount) THEN "Jumlah harus lebih dari 0"
    ELSE IF Trim(formData.description) = "" THEN "Deskripsi tidak boleh kosong"
    ELSE IF formData.category_id = 0 THEN "Silakan pilih kategori"
    ELSE ""

\* handleSubmit up to its await: the validation throws, caught at once, or
\* onSubmit is called with formData
handleSubmit ==
    /\ form.mounted
    /\ ~ SubmitDisabled
    /\ IF ValidationError(form.formData) # ""
       THEN form' = [form EXCEPT !.error = ValidationError(form.formData),
                                 !.submitLoading = FALSE,
                                 !.event = "invalid"]
       ELSE form' = [form EXCEPT !.error = "",
                                 !.submitLoading = TRUE,
                                 !.onSubmit = {form.formData},
                                 !.event = "onSubmit"]
    /\ UNCHANGED <<categoriesTable, transactionsTable, categoriesIdSeq,
                   transactionsIdSeq, now, last, args, calls, before>>

\* onSubmit resolved: the form is reset
OnSubmitResolved ==
    /\ form.mounted
    /\ form.onSubmit # {}
    /\ form' = [form EXCEPT !.formData = DefaultFormData,
                            !.submitLoading = FALSE,
                            !.onSubmit = {},
                            !.event = "reset"]
    /\ UNCHANGED <<categoriesTable, transactionsTable, categoriesIdSeq,
                   transactionsIdSeq, now, last, args, calls, before>>

\* onSubmit rejected, with an Error or with some other value
OnSubmitRejected(message) ==
    /\ form.mounted
    /\ form.onSubmit # {}
    /\ form' = [form EXCEPT !.error = message,
                            !.submitLoading = FALSE,
                            !.onSubmit = {},
                            !.event = "rejected"]
    /\ UNCHANGED <<categoriesTable, transactionsTable, categoriesIdSeq,
                   transactionsIdSeq, now, last, args, calls, before>>

RejectionMessages == {"Failed to create transaction", "Terjadi kesalahan"}

\* the form mounted with any list of categories; the store plays no part
InitForm ==
    \E categories \in CategoryLists :
        /\ categoriesTable = {}
        /\ transactionsTable = {}
        /\ categoriesIdSeq = 0
        /\ transactionsIdSeq = 0
        /\ now = 0
        /\ last = Outcome("init", "none", "none", 0, 0, FALSE, {})
        /\ args = <<>>
        /\ calls = [p \in Procs |-> Idle]
        /\ before = <<>>
        /\ form = [categories |-> categories,
                   isLoading |-> FALSE,
                   mounted |-> TRUE,
                   fixed |-> TRUE,
                   formData |-> DefaultFormData,
                   submitLoading |-> FALSE,
                   error |-> "",
                   onSubmit |-> {},
                   event |-> "mount"]

NextForm ==
    \/ \E value \in AmountTexts : handleAmountChange(value)
    \/ \E value \in DescriptionTexts : handleDescriptionChange(value)
    \/ \E value \in DateTexts : handleDateChange(value)
    \/ \E type \in transactionTypeEnum : handleTypeChange(type)
    \/ \E id \in PositiveCategoryIds : handleCategoryChange(id)
    \/ \E categories \in CategoryLists, isLoading \in BOOLEAN :
          Render(categories, isLoading)
    \/ handleSubmit
    \/ OnSubmitResolved
    \/ \E message \in RejectionMessages : OnSubmitRejected(message)

SpecForm == InitForm /\ [][NextForm]_vars

(***************************************************************************)
(* Properties.                                                             *)
(***************************************************************************)

\* at this step client p's call of the handler, in flight with the input,
\* returns or throws
ReturnsFrom(p, op, input) ==
    /\ calls[p].op = op
    /\ ~ NotInFlight(p)
    /\ calls[p].input = input
    /\ calls'[p].pc = "done"

\* C1: in every state reachable from the empty store by completed calls of
\* the six mutating handlers, failing calls included, every stored
\* transaction's category_id is the id of a stored category.
C1_ReferentialIntegrity ==
    \A t \in transactionsTable : \E c \in categoriesTable : c.id = t.category_id

\* a category deletion was refused while transactions are stored
C1_Witness ==
    /\ last.op = "deleteCategory"
    /\ last.error = "ReferentialConflict"
    /\ Cardinality(transactionsTable) = 2
    /\ Cardinality(categoriesTable) = 2

\* C2: deleteCategory(id) of an existing category referenced by N >= 1
\* transactions fails with a conflict that names exactly N and keeps the
\* category row; of an existing category that no transaction references
\* (all N deleted again, none added) it returns success=true and the row is
\* gone.
C2_ReferentialGuard ==
    [][\A id \in CategoryIdInputs :
          (/\ \/ ReturnsFrom(Client, "deleteCategory", [id |-> id])
              \/ DeleteCategorySelectCategory(Client, id) /\ last'.error # "none"
           /\ \E c \in categoriesTable : c.id = id) =>
            LET N == Cardinality({t \in transactionsTable : t.category_id = id})
            IN  /\ N >= 1 =>
                     /\ last'.error = "ReferentialConflict"
                     /\ last'.count = N
                     /\ last'.id = id
                     /\ categoriesTable' = categoriesTable
                /\ N = 0 =>
                     /\ last'.error = "none"
                     /\ last'.success
                     /\ ~ \E c \in categoriesTable' : c.id = id]_vars

\* a deletion refused because of two transactions
C2_Witness ==
    /\ last.op = "deleteCategory"
    /\ last.error = "ReferentialConflict"
    /\ last.count = 2

\* C6: deleteTransaction(id) never fails; it returns success=true exactly
\* when a row with that id existed and was removed, success=false otherwise;
\* called again right after a successful call with the same id it returns
\* success=false and leaves the store as the first call left it.
C6_DeleteTransactionIdempotent ==
    [][\A id \in TransactionIdInputs :
          DeleteTransaction(Client, id) =>
            /\ last'.error = "none"
            /\ last'.success <=>
                  /\ \E t \in transactionsTable : t.id = id
                  /\ ~ \E t \in transactionsTable' : t.id = id
            /\ (last.op = "deleteTransaction" /\ last.success /\ last.id = id) =>
                  /\ ~ last'.success
                  /\ tables' = tables]_vars

\* the second of two deletions of a transaction id that has been assigned
C6_Witness ==
    /\ last.op = "deleteTransaction"
    /\ ~ last.success
    /\ last.id >= 1
    /\ last.id <= transactionsIdSeq
    /\ transactionsTable # {}

(***************************************************************************)
(* Properties of one call (SpecCall): before is the store the call was     *)
(* made on; at the step at which the call returns or throws, the primed    *)
(* variables are the store it leaves, its outcome and its input.           *)
(***************************************************************************)

\* C3: deleteCategory(id) has three outcomes, decided in this order:
\* NotFound when no category has the id; ReferentialConflict when it exists
\* and a transaction references it; success=true with the row removed
\* otherwise.  Both failures leave both tables unchanged; success changes no
\* other category and no transaction.
C3_DeleteCategoryOutcomes ==
    [][last'.op = "deleteCategory" =>
         LET id     == args'.id
             exists == \E c \in before.categories : c.id = id
             refs   == {t \in before.transactions : t.category_id = id}
         IN  /\ ~ exists =>
                  /\ last'.error = "NotFound"
                  /\ last'.entity = "category"
                  /\ last'.id = id
                  /\ tables' = before
             /\ (exists /\ refs # {}) =>
                  /\ last'.error = "ReferentialConflict"
                  /\ last'.count = Cardinality(refs)
                  /\ tables' = before
             /\ (exists /\ refs = {}) =>
                  /\ last'.error = "none"
                  /\ last'.success
                  /\ categoriesTable' = {c \in before.categories : c.id # id}
                  /\ transactionsTable' = before.transactions]_vars

\* an unreferenced category deleted while another category and its
\* transactions stay
C3_Witness ==
    /\ last.op = "deleteCategory"
    /\ last.error = "none"
    /\ last.success
    /\ categoriesTable # {}
    /\ transactionsTable # {}

\* C4: createTransaction with a category_id that matches no stored category
\* fails with NotFound naming that category id, and both tables are as they
\* were before the call.
C4_CreateTransactionNotFound ==
    [][(/\ last'.op = "createTransaction"
        /\ ~ \E c \in before.categories : c.id = args'.category_id) =>
          /\ last'.error = "NotFound"
          /\ last'.entity = "category"
          /\ last'.id = args'.category_id
          /\ tables' = before]_vars

\* the call refused on a store that holds categories and transactions
C4_Witness ==
    /\ last.op = "createTransaction"
    /\ last.error = "NotFound"
    /\ last.id = args.category_id
    /\ categoriesTable # {}
    /\ transactionsTable # {}

\* the amount a is stored as n: n is the multiple of 0.01 nearest to a, the
\* half rounded up
NearestCent(a, n) ==
    (n.units - a.units) * 1000 + n.cents * 10 - a.mills \in -4..5

\* the number r is the value of the stored amount n
SameAmount(r, n) == r.units = n.units /\ r.mills = n.cents * 10

\* the amount a, rounded to the cent, fits numeric(10,2)
FitsColumn(a) ==
    \/ a.units < NumericLimit - 1
    \/ a.units = NumericLimit - 1 /\ a.mills < 995

\* createTransaction has added exactly one row, carrying the input, under a
\* new id, and has returned it joined with the name of its category
CreatedOneTransaction ==
    /\ last'.error = "none"
    /\ before.transactions \subseteq transactionsTable'
    /\ categoriesTable' = before.categories
    /\ \E t \in transactionsTable', r \in last'.rows,
          c \in {k \in before.categories : k.id = args'.category_id} :
          /\ transactionsTable' \ before.transactions = {t}
          /\ last'.rows = {r}
          /\ \A old \in before.transactions : old.id # t.id
          /\ t.description = args'.description
          /\ t.date = args'.date
          /\ t.category_id = args'.category_id
          /\ t.type = args'.type
          /\ NearestCent(args'.amount, t.amount)
          /\ r.id = t.id
          /\ SameAmount(r.amount, t.amount)
          /\ r.description = t.description
          /\ r.date = t.date
          /\ r.category_id = t.category_id
          /\ r.type = t.type
          /\ r.created_at = t.created_at
          /\ r.category_name = c.name

\* C5 as stated: createTransaction with an existing category_id adds exactly
\* one transaction row carrying the input description, date, category_id and
\* kind and the amount at 2-decimal precision, with an id different from
\* every id in the table, and returns it joined with the category's name;
\* earlier transactions and all categories are unchanged.
C5_Original ==
    [][(/\ last'.op = "createTransaction"
        /\ \E c \in before.categories : c.id = args'.category_id) =>
          CreatedOneTransaction]_vars

\* C5 (amended): the same, for an amount that rounded to the cent is below
\* 10^8, the largest the numeric(10,2) column takes; a larger amount makes
\* the call fail and leaves both tables unchanged.
C5_CreateTransaction ==
    [][(/\ last'.op = "createTransaction"
        /\ \E c \in before.categories : c.id = args'.category_id) =>
          IF FitsColumn(args'.amount)
          THEN CreatedOneTransaction
          ELSE last'.error # "none" /\ tables' = before]_vars

\* a second transaction created, its amount 1.005 stored as 1.01
C5_Witness ==
    /\ last.op = "createTransaction"
    /\ last.error = "none"
    /\ args.amount = [units |-> 1, mills |-> 5]
    /\ Cardinality(transactionsTable) = 2
    /\ \E t \in transactionsTable :
          t.id = last.id /\ t.amount = [units |-> 1, cents |-> 1]

TransactionFields == {"amount", "description", "date", "category_id", "type"}

\* C7: updateTransaction on an existing transaction, with any subset of
\* {amount, description, date, category_id, kind} supplied (a supplied
\* category_id being valid), leaves each field that is not supplied, the id
\* and created_at as they were, in the store and in the returned row, and
\* leaves every other transaction unchanged.
C7_UpdateTransactionFrame ==
    [][(/\ last'.op = "updateTransaction"
        /\ \E t \in before.transactions : t.id = args'.id
        /\ \A k \in args'.category_id : \E c \in before.categories : c.id = k) =>
          \E old \in before.transactions, new \in transactionsTable' :
            /\ old.id = args'.id
            /\ new.id = old.id
            /\ transactionsTable' \ {new} = before.transactions \ {old}
            /\ categoriesTable' = before.categories
            /\ new.created_at = old.created_at
            /\ \A k \in TransactionFields : args'[k] = {} => new[k] = old[k]
            /\ \A r \in last'.rows :
                 /\ r.id = old.id
                 /\ r.created_at = old.created_at
                 /\ args'.amount = {} => SameAmount(r.amount, old.amount)
                 /\ \A k \in TransactionFields \ {"amount"} :
                      args'[k] = {} => r[k] = old[k]]_vars

\* an update of the amount alone, made after the rows were created, on a
\* store with a second transaction
C7_Witness ==
    /\ last.op = "updateTransaction"
    /\ last.error = "none"
    /\ UpdateDataKeys(args) = {"amount"}
    /\ Cardinality(transactionsTable) = 2
    /\ now > 0
    /\ \E t \in transactionsTable :
          t.id = args.id /\ t.amount = [units |-> 0, cents |-> 0]
                         /\ t.description = "Lunch"

\* C8: updateTransaction fails with NotFound naming the transaction id when
\* no transaction has input.id (checked first), and otherwise with NotFound
\* naming the category id when a supplied category_id matches no category;
\* in both cases no stored row is changed, whatever else was supplied.
C8_UpdateTransactionNotFound ==
    [][last'.op = "updateTransaction" =>
         LET found == \E t \in before.transactions : t.id = args'.id
             missing == {k \in args'.category_id :
                           ~ \E c \in before.categories : c.id = k}
         IN  /\ ~ found =>
                  /\ last'.error = "NotFound"
                  /\ last'.entity = "transaction"
                  /\ last'.id = args'.id
                  /\ tables' = before
             /\ (found /\ missing # {}) =>
                  /\ last'.error = "NotFound"
                  /\ last'.entity = "category"
                  /\ {last'.id} = missing
                  /\ tables' = before]_vars

\* a missing category reported for an existing transaction although an
\* amount and a description were supplied too
C8_Witness ==
    /\ last.op = "updateTransaction"
    /\ last.error = "NotFound"
    /\ last.entity = "category"
    /\ args.amount # {}
    /\ args.description # {}
    /\ \E t \in transactionsTable : t.id = args.id

\* C9: a successful updateTransaction returns the row as it is stored after
\* the write, joined with the category it now references: every returned
\* field equals the stored field and category_name is the name of the
\* category whose id is the returned category_id.
C9_UpdateTransactionReturnsStored ==
    [][(last'.op = "updateTransaction" /\ last'.error = "none") =>
          \E r \in last'.rows, t \in transactionsTable', c \in categoriesTable' :
            /\ last'.rows = {r}
            /\ t.id = args'.id
            /\ r.id = t.id
            /\ SameAmount(r.amount, t.amount)
            /\ r.description = t.description
            /\ r.date = t.date
            /\ r.category_id = t.category_id
            /\ r.type = t.type
            /\ r.created_at = t.created_at
            /\ c.id = r.category_id
            /\ r.category_name = c.name]_vars

\* transaction 1 moved to category 2, together with a new amount
C9_Witness ==
    /\ last.op = "updateTransaction"
    /\ last.error = "none"
    /\ args.id = 1
    /\ args.category_id = {2}
    /\ args.amount # {}
    /\ \E r \in last.rows : r.category_id = 2 /\ r.category_name = "Food"

\* C10: updateCategory with name or kind supplied changes only the supplied
\* fields of the category with input.id: the other field, the id and
\* created_at keep their values, every other category and every transaction
\* is unchanged and the returned row is the stored row; when no category has
\* input.id it fails with NotFound and the store is unchanged.
C10_UpdateCategoryFrame ==
    [][(last'.op = "updateCategory" /\ (args'.name # {} \/ args'.type # {})) =>
          IF \E c \in before.categories : c.id = args'.id
          THEN \E old \in before.categories, new \in categoriesTable' :
                 /\ old.id = args'.id
                 /\ new.id = old.id
                 /\ new.created_at = old.created_at
                 /\ new.name = IF args'.name = {} THEN old.name
                                                  ELSE The(args'.name)
                 /\ new.type = IF args'.type = {} THEN old.type
                                                  ELSE The(args'.type)
                 /\ categoriesTable' \ {new} = before.categories \ {old}
                 /\ transactionsTable' = before.transactions
                 /\ last'.error = "none"
                 /\ last'.rows = {new}
          ELSE /\ last'.error = "NotFound"
               /\ last'.entity = "category"
               /\ last'.id = args'.id
               /\ tables' = before]_vars

\* the name alone changed on a category of kind expense, after the rows
\* were created, next to another category
C10_Witness ==
    /\ last.op = "updateCategory"
    /\ last.error = "none"
    /\ args.name = {"Salary"}
    /\ args.type = {}
    /\ now > 0
    /\ Cardinality(categoriesTable) = 2
    /\ \E c \in categoriesTable :
          c.id = args.id /\ c.name = "Salary" /\ c.type = "expense"

\* C11: updateCategory called with an id alone, neither name nor kind,
\* writes nothing: when a category has the id the call returns that stored
\* row as it is and both tables are unchanged; when none has, it fails with
\* NotFound naming the id.
C11_UpdateCategoryEmpty ==
    [][(last'.op = "updateCategory" /\ args'.name = {} /\ args'.type = {}) =>
          /\ tables' = before
          /\ IF \E c \in before.categories : c.id = args'.id
             THEN /\ last'.error = "none"
                  /\ last'.rows = {c \in before.categories : c.id = args'.id}
                  /\ Cardinality(last'.rows) = 1
             ELSE /\ last'.error = "NotFound"
                  /\ last'.entity = "category"
                  /\ last'.id = args'.id]_vars

\* the second category returned by an update that names no field, made
\* after the rows were created, on a store that holds transactions
C11_Witness ==
    /\ last.op = "updateCategory"
    /\ last.error = "none"
    /\ args.name = {}
    /\ args.type = {}
    /\ args.id = 2
    /\ now > 0
    /\ transactionsTable # {}
    /\ last.rows = {c \in categoriesTable : c.id = 2}
    /\ Cardinality(categoriesTable) = 2

(***************************************************************************)
(* Properties of one read (SpecRead): the tables are those the read was    *)
(* made on, args' its input and last' its result.                          *)
(***************************************************************************)

\* the ids of the rows of a returned array
ReturnedIds(rows) == {rows[i].id : i \in DOMAIN rows}

\* C12: for every filter the input schema accepts (start_date, end_date,
\* kind and category_id each supplied or omitted, category_id any number),
\* getTransactions returns exactly the stored transactions that satisfy all
\* supplied predicates: date >= start_date, date <= end_date, kind equal,
\* category_id equal; none that violates one, none that matches missing.
C12_GetTransactionsFilters ==
    [][last'.op = "getTransactions" =>
         LET supplied(k) == IF args' = {} THEN {} ELSE (CHOOSE f \in args' : TRUE)[k]
             matching ==
                 {t \in transactionsTable :
                      /\ \A d \in supplied("start_date") : t.date >= d
                      /\ \A d \in supplied("end_date") : t.date <= d
                      /\ \A k \in supplied("type") : t.type = k
                      /\ \A c \in supplied("category_id") : t.category_id = c}
         IN  /\ ReturnedIds(last'.rows) = {t.id : t \in matching}
             /\ Len(last'.rows) = Cardinality(matching)]_vars

\* C13: getTransactions with no filter (every field omitted, or the input
\* undefined) returns every stored transaction exactly once, each joined
\* with the name of its category; and every getTransactions result is in
\* ascending order of date.
C13_GetTransactionsAllOrdered ==
    [][last'.op = "getTransactions" =>
         LET rows == last'.rows
             unfiltered ==
                 \A f \in args' : /\ f.start_date = {} /\ f.end_date = {}
                                  /\ f.type = {} /\ f.category_id = {}
         IN  /\ \A i \in 2..Len(rows) : rows[i - 1].date <= rows[i].date
             /\ unfiltered =>
                  /\ Len(rows) = Cardinality(transactionsTable)
                  /\ \A t \in transactionsTable :
                       \E i \in DOMAIN rows, c \in categoriesTable :
                         /\ c.id = t.category_id
                         /\ rows[i].category_name = c.name
                         /\ rows[i].id = t.id
                         /\ SameAmount(rows[i].amount, t.amount)
                         /\ rows[i].description = t.description
                         /\ rows[i].date = t.date
                         /\ rows[i].category_id = t.category_id
                         /\ rows[i].type = t.type
                         /\ rows[i].created_at = t.created_at]_vars

\* undefined input: both transactions returned, the one with the later id
\* and the earlier date first, under the differing names of their categories
C13_Witness ==
    /\ last.op = "getTransactions"
    /\ args = {}
    /\ Len(last.rows) = 2
    /\ last.rows[1].id = 2
    /\ last.rows[2].id = 1
    /\ last.rows[1].date < last.rows[2].date
    /\ last.rows[1].category_name # last.rows[2].category_name
    /\ Cardinality(transactionsTable) = 2

\* an amount of the store, and a returned number, in integer cents
Cents(n) == n.units * 100 + n.cents
NumberCents(x) == x.units * 100 + x.mills \div 10

\* the sum of the stored amounts of a set of rows, in integer cents
RECURSIVE SumCents(_)
SumCents(rows) ==
    IF rows = {} THEN 0
    ELSE LET r == CHOOSE x \in rows : TRUE
         IN  Cents(r.amount) + SumCents(rows \ {r})

\* the stored transactions of kind k dated within [start_date, end_date]
InRange(range, k) ==
    {t \in transactionsTable :
        /\ t.type = k
        /\ t.date >= range.start_date
        /\ t.date <= range.end_date}

\* C14: getReportSummary(range) returns total_income = the sum of the
\* amounts of the stored transactions of kind income dated in
\* [start_date, end_date], total_expense = the same for kind expense (each 0
\* when there is no such row), transactions_count = the number of stored
\* transactions dated in the range, and period = the input range.
C14_ReportSummaryTotals ==
    [][last'.op = "getReportSummary" =>
         \E summary \in last'.rows :
            /\ last'.rows = {summary}
            /\ summary.total_income.mills % 10 = 0
            /\ summary.total_expense.mills % 10 = 0
            /\ NumberCents(summary.total_income) = SumCents(InRange(args', "income"))
            /\ NumberCents(summary.total_expense) = SumCents(InRange(args', "expense"))
            /\ summary.transactions_count =
                  Cardinality(InRange(args', "income") \cup InRange(args', "expense"))
            /\ summary.period = args']_vars

\* one income of 1234.56 in the range; no expense in the range although
\* one is stored
C14_Witness ==
    /\ last.op = "getReportSummary"
    /\ args.start_date = args.end_date
    /\ \E t \in transactionsTable : t.type = "expense"
    /\ \E summary \in last.rows :
          /\ summary.total_income = [units |-> 1234, mills |-> 560]
          /\ summary.total_expense = [units |-> 0, mills |-> 0]
          /\ summary.transactions_count = 1

\* C15: for any store contents and any date range the summary satisfies
\* net_amount = total_income - total_expense exactly to the cent (amounts as
\* integer cents), also when the result is negative, and the sums of
\* 2-decimal amounts lose no cent: 1234.56 + 0.01 gives 1234.57.
C15_NetAmountExact ==
    [][last'.op = "getReportSummary" =>
         \A summary \in last'.rows :
            /\ summary.net_amount.mills \in 0..999
            /\ summary.net_amount.mills % 10 = 0
            /\ NumberCents(summary.net_amount)
                  = NumberCents(summary.total_income)
                    - NumberCents(summary.total_expense)
            /\ NumberCents(summary.net_amount)
                  = SumCents(InRange(args', "income"))
                    - SumCents(InRange(args', "expense"))]_vars

\* expenses of 1234.56 and 0.01 and no income: total_expense 1234.57,
\* net_amount -1234.57 (units -1235, mills 430)
C15_Witness ==
    /\ last.op = "getReportSummary"
    /\ \E summary \in last.rows :
          /\ summary.total_income = [units |-> 0, mills |-> 0]
          /\ summary.total_expense = [units |-> 1234, mills |-> 570]
          /\ summary.net_amount = [units |-> -1235, mills |-> 430]
          /\ summary.transactions_count = 2

\* the stored transactions of category id dated within the range
InRangeOfCategory(range, id) ==
    {t \in transactionsTable :
        /\ t.category_id = id
        /\ t.date >= range.start_date
        /\ t.date <= range.end_date}

\* C16: getCategoryReport(range) returns exactly one row for each category
\* that has at least one transaction dated in [start_date, end_date] and no
\* row for any other category; a row's total_amount is the sum of the
\* amounts of the category's transactions in the range, its
\* transactions_count their number, its category_id and category_name those
\* of the category.
C16_CategoryReportRows ==
    [][last'.op = "getCategoryReport" =>
         LET rows == last'.rows
         IN  /\ \A i \in DOMAIN rows :
                   \E c \in categoriesTable : c.id = rows[i].category_id
             /\ \A c \in categoriesTable :
                   LET group == InRangeOfCategory(args', c.id)
                       of_c  == {i \in DOMAIN rows : rows[i].category_id = c.id}
                   IN  /\ Cardinality(of_c) = IF group = {} THEN 0 ELSE 1
                       /\ \A i \in of_c :
                            /\ rows[i].category_name = c.name
                            /\ rows[i].total_amount.mills % 10 = 0
                            /\ NumberCents(rows[i].total_amount) = SumCents(group)
                            /\ rows[i].transactions_count = Cardinality(group)]_vars

\* a report of one row: the two transactions of one category sum to 1234.57
\* and the other stored category has no row
C16_Witness ==
    /\ last.op = "getCategoryReport"
    /\ Len(last.rows) = 1
    /\ last.rows[1].total_amount = [units |-> 1234, mills |-> 570]
    /\ last.rows[1].transactions_count = 2
    /\ Cardinality(categoriesTable) = 2

\* the sum of transactions_count over the rows of a category report
RECURSIVE ReportedCount(_)
ReportedCount(rows) ==
    IF rows = <<>> THEN 0
    ELSE Head(rows).transactions_count + ReportedCount(Tail(rows))

\* C17: both ends of a report range are inclusive: a transaction dated
\* exactly at start_date or exactly at end_date is counted by
\* getReportSummary and by getCategoryReport for that range, one dated one
\* time unit before start_date or after end_date is not; a range with
\* start_date = end_date counts the transactions dated at that instant.
C17_InclusiveBounds ==
    [][last'.op \in {"getReportSummary", "getCategoryReport"} =>
         LET range == args'
             atBounds == {t \in transactionsTable :
                             /\ range.start_date <= range.end_date
                             /\ t.date \in {range.start_date, range.end_date}}
             between  == {t \in transactionsTable :
                             range.start_date < t.date /\ t.date < range.end_date}
             outside  == {t \in transactionsTable :
                             t.date \in {range.start_date - 1, range.end_date + 1}}
             counted  == atBounds \cup between
         IN  /\ outside \cap counted = {}
             /\ last'.op = "getReportSummary" =>
                  \A summary \in last'.rows :
                     summary.transactions_count = Cardinality(counted)
             /\ last'.op = "getCategoryReport" =>
                  /\ ReportedCount(last'.rows) = Cardinality(counted)
                  /\ {last'.rows[i].category_id : i \in DOMAIN last'.rows}
                        = {t.category_id : t \in counted}]_vars

\* a category report for a range of one instant: the transaction dated at
\* it is counted, the one dated one unit before it is not
C17_Witness ==
    /\ last.op = "getCategoryReport"
    /\ args.start_date = args.end_date
    /\ \E t \in transactionsTable : t.date = args.start_date
    /\ \E t \in transactionsTable : t.date = args.start_date - 1
    /\ Len(last.rows) = 1
    /\ last.rows[1].transactions_count = 1

\* C20: getCategories(kind) returns exactly the stored categories whose
\* kind equals the argument, getCategories() with no argument every stored
\* category; two categories of the same name and different kinds are
\* returned separately, each under its own kind.
C20_GetCategories ==
    [][last'.op = "getCategories" =>
         LET rows == last'.rows
             expected == {c \in categoriesTable :
                             \A k \in args'.type : c.type = k}
         IN  /\ {rows[i] : i \in DOMAIN rows} = expected
             /\ Len(rows) = Cardinality(expected)]_vars

\* of two stored categories of one name, getCategories("expense") returns
\* the one of kind expense alone
C20_Witness ==
    /\ last.op = "getCategories"
    /\ args.type = {"expense"}
    /\ \E a, b \in categoriesTable :
          /\ a.name = b.name
          /\ a.type = "income"
          /\ b.type = "expense"
          /\ last.rows = <<b>>

\* the UTC date of a model date, as YYYY-MM-DD
DayText(d) ==
    CASE d = 0 -> "2024-01-31"
      [] d \in {1, 2} -> "2024-02-01"
      [] d \in {3, 4} -> "2024-02-02"

\* C21: exportExcelReport(range) returns filename = 'financial_report_' +
\* start date as YYYY-MM-DD + '_to_' + end date as YYYY-MM-DD + '.xlsx' and
\* file_url = '/exports/' + filename; the result depends on the input range
\* alone, whatever the store holds, a range without transactions included.
C21_ExportFilename ==
    [][last'.op = "exportExcelReport" =>
         LET name == "financial_report_" \o DayText(args'.start_date)
                        \o "_to_" \o DayText(args'.end_date) \o ".xlsx"
         IN  /\ last'.error = "none"
             /\ last'.rows = {[file_url |-> "/exports/" \o name,
                               filename |-> name]}
             /\ tables' = tables]_vars

\* an export for a range no stored transaction is dated in
C21_Witness ==
    /\ last.op = "exportExcelReport"
    /\ args = [start_date |-> 0, end_date |-> 0]
    /\ Cardinality(transactionsTable) = 2
    /\ \A t \in transactionsTable : t.date = 1
    /\ last.rows =
          {[file_url |-> "/exports/financial_report_2024-01-31_to_2024-01-31.xlsx",
            filename |-> "financial_report_2024-01-31_to_2024-01-31.xlsx"]}

\* the sum of total_amount over the rows of a category report, in cents
RECURSIVE ReportedCents(_)
ReportedCents(rows) ==
    IF rows = <<>> THEN 0
    ELSE NumberCents(Head(rows).total_amount) + ReportedCents(Tail(rows))

\* the getTransactions input that has the dates of a range and no other filter
FiltersOfRange(range) ==
    {[start_date |-> {range.start_date}, end_date |-> {range.end_date},
      type |-> {}, category_id |-> {}]}

\* C28: on every store and for every date range the three read paths
\* agree, also when a transaction's kind differs from its category's: the
\* sum of total_amount over the rows of getCategoryReport equals
\* total_income + total_expense of getReportSummary (amounts to the cent),
\* the sum of transactions_count over those rows equals the summary's
\* transactions_count, and that equals the number of rows getTransactions
\* returns for the same start_date and end_date.
C28_ReadPathsAgree ==
    [][\A range \in DateRanges :
         LET summary == ReportSummary(transactionsTable, range)
             report  == CategoryReportRows(transactionsTable, categoriesTable,
                                           range)
             listed  == JoinedTransactionsWhere(transactionsTable,
                            categoriesTable, FiltersOfRange(range))
             Agree(rows, s, n) ==
                 /\ ReportedCents(rows) = NumberCents(s.total_income)
                                          + NumberCents(s.total_expense)
                 /\ ReportedCount(rows) = s.transactions_count
                 /\ s.transactions_count = n
         IN  /\ (last'.op = "getCategoryReport" /\ args' = range) =>
                   Agree(last'.rows, summary, Cardinality(listed))
             /\ (last'.op = "getReportSummary" /\ args' = range) =>
                   \A s \in last'.rows :
                      \A rows \in RowsInAnyOrder(report) :
                         Agree(rows, s, Cardinality(listed))
             /\ (last'.op = "getTransactions"
                   /\ args' = FiltersOfRange(range)) =>
                   \A rows \in RowsInAnyOrder(report) :
                      Agree(rows, summary, Len(last'.rows))]_vars

\* a report of two rows, an income booked under an expense category among
\* its transactions
C28_Witness ==
    /\ last.op = "getCategoryReport"
    /\ Len(last.rows) = 2
    /\ ReportedCount(last.rows) = 2
    /\ \E t \in transactionsTable, c \in categoriesTable :
          /\ t.category_id = c.id
          /\ t.type = "income"
          /\ c.type = "expense"

(***************************************************************************)
(* Further properties of sequences of calls (Spec).                        *)
(***************************************************************************)

\* C18: after any sequence of createTransaction and updateTransaction calls
\* whose inputs pass the boundary validation (amount a positive number, with
\* any number of fractional digits), every stored transaction has
\* amount > 0, held with exactly 2 fractional digits.
C18_StoredAmountPositive ==
    \A t \in transactionsTable :
        /\ t.amount.cents \in 0..99
        /\ t.amount.units >= 0
        /\ t.amount.units > 0 \/ t.amount.cents > 0

\* C19: createCategory stores a new category row with the given name and
\* kind and returns it under the id the store assigned: the returned id
\* retrieves exactly that row, the ids returned by any two createCategory
\* calls differ (an id is above every value the sequence has given out, and
\* the sequence never goes back), and a call whose name, or name and kind,
\* a stored category already has succeeds as well and adds a further row.
C19_CreateCategory ==
    [][/\ categoriesIdSeq' >= categoriesIdSeq
       /\ \A c \in categoriesTable : c.id <= categoriesIdSeq
       /\ \A input \in CreateCategoryInputs :
            CreateCategory(Client, input) =>
              /\ last'.error = "none"
              /\ \E row \in last'.rows :
                   /\ last'.rows = {row}
                   /\ row.name = input.name
                   /\ row.type = input.type
                   /\ row.id > categoriesIdSeq
                   /\ row.id <= categoriesIdSeq'
                   /\ \A c \in categoriesTable : c.id # row.id
                   /\ categoriesTable' = categoriesTable \cup {row}
                   /\ {c \in categoriesTable' : c.id = row.id} = {row}
                   /\ transactionsTable' = transactionsTable]_vars

\* a second category created with the name and the kind of the first
C19_Witness ==
    /\ last.op = "createCategory"
    /\ last.error = "none"
    /\ Cardinality(categoriesTable) = 2
    /\ \E a, b \in categoriesTable :
          /\ a.id # b.id
          /\ b.id = last.id
          /\ a.name = b.name
          /\ a.type = b.type

\* an id the sequence has given out and no stored row carries: the id of a
\* deleted row
GoneCategory(id) ==
    /\ id <= categoriesIdSeq
    /\ ~ \E c \in categoriesTable : c.id = id

GoneTransaction(id) ==
    /\ id <= transactionsIdSeq
    /\ ~ \E t \in transactionsTable : t.id = id

\* C29: ids are never reused.  Across any sequence of calls the id given to
\* a newly created category or transaction is above every id given out
\* before, those of deleted rows included; so once deleteCategory(id) has
\* succeeded the id stays without a row, and every later updateCategory(id),
\* deleteCategory(id) and createTransaction with category_id = id fails with
\* NotFound; every later deleteTransaction of a deleted transaction id
\* returns success=false.
C29_IdsNeverReused ==
    [][/\ categoriesIdSeq' >= categoriesIdSeq
       /\ transactionsIdSeq' >= transactionsIdSeq
       /\ \A c \in categoriesTable' :
             /\ c.id <= categoriesIdSeq'
             /\ (~ \E b \in categoriesTable : b.id = c.id) =>
                   c.id > categoriesIdSeq
       /\ \A t \in transactionsTable' :
             /\ t.id <= transactionsIdSeq'
             /\ (~ \E b \in transactionsTable : b.id = t.id) =>
                   t.id > transactionsIdSeq
       /\ \A id \in PositiveCategoryIds :
             /\ (/\ ReturnsFrom(Client, "deleteCategory", [id |-> id])
                 /\ last'.error = "none"
                 /\ last'.success) =>
                   GoneCategory(id)'
             /\ GoneCategory(id) =>
                   /\ GoneCategory(id)'
                   /\ \A input \in UpdateCategoryInputs :
                        (input.id = id /\ UpdateCategory(Client, input)) =>
                           last' = CategoryNotFound("updateCategory", id)
                   /\ DeleteCategorySelectCategory(Client, id) =>
                        last' = CategoryNotFound("deleteCategory", id)
                   /\ \A input \in SeqCreateTransactionInputs :
                        (/\ input.category_id = id
                         /\ CreateTransactionSelectCategory(Client, input)) =>
                           /\ last'.error = "NotFound"
                           /\ last'.entity = "category"
                           /\ last'.id = id
       /\ \A id \in 1..MaxTransactionId :
             /\ (DeleteTransaction(Client, id) /\ last'.success) =>
                   GoneTransaction(id)'
             /\ GoneTransaction(id) =>
                   /\ GoneTransaction(id)'
                   /\ DeleteTransaction(Client, id) =>
                        /\ last'.error = "none"
                        /\ ~ last'.success]_vars

\* category 1 and transaction 1 deleted, category 2 and transaction 2 created
\* after them, and a createTransaction under category 1 refused
C29_Witness ==
    /\ GoneCategory(1)
    /\ GoneTransaction(1)
    /\ \E c \in categoriesTable : c.id = 2
    /\ \E t \in transactionsTable : t.id = 2
    /\ last.op = "createTransaction"
    /\ last.error = "NotFound"
    /\ last.id = 1

(***************************************************************************)
(* Further properties of one call (SpecCall).                              *)
(***************************************************************************)

\* C22: changing the kind of a category with updateCategory leaves every
\* transaction row unchanged, the kind of the transactions that reference
\* the category included; createTransaction and updateTransaction do not
\* reject a transaction whose kind differs from the kind of the category it
\* references; so the summary getReportSummary gives stays the same and is
\* taken over each transaction's own kind.
C22_KindsIndependent ==
    [][/\ last'.op = "updateCategory" =>
            /\ transactionsTable' = before.transactions
            /\ \A range \in DateRanges :
                 LET earlier == ReportSummary(before.transactions, range)
                     after   == ReportSummary(transactionsTable', range)
                 IN  /\ after = earlier
                     /\ NumberCents(after.total_income)
                           = SumCents(InRange(range, "income"))
                     /\ NumberCents(after.total_expense)
                           = SumCents(InRange(range, "expense"))
       /\ (/\ last'.op = "createTransaction"
           /\ FitsColumn(args'.amount)
           /\ \E c \in before.categories :
                 c.id = args'.category_id /\ c.type # args'.type) =>
            /\ last'.error = "none"
            /\ \E t \in transactionsTable' \ before.transactions :
                 t.type = args'.type /\ t.category_id = args'.category_id
       /\ last'.op = "updateTransaction" =>
            \A old \in {t \in before.transactions : t.id = args'.id} :
               LET kind == IF args'.type = {} THEN old.type
                           ELSE CHOOSE k \in args'.type : TRUE
                   cat  == IF args'.category_id = {} THEN old.category_id
                           ELSE CHOOSE k \in args'.category_id : TRUE
               IN  (/\ UpdateDataKeys(args') # {}
                    /\ \A a \in args'.amount : FitsColumn(a)
                    /\ \E c \in before.categories : c.id = cat /\ c.type # kind) =>
                      /\ last'.error = "none"
                      /\ \E t \in transactionsTable' :
                           /\ t.id = old.id
                           /\ t.type = kind
                           /\ t.category_id = cat]_vars

\* category 1 turned from income to expense while a transaction of kind
\* income references it
C22_Witness ==
    /\ last.op = "updateCategory"
    /\ last.error = "none"
    /\ args.id = 1
    /\ args.type = {"expense"}
    /\ \E c \in categoriesTable : c.id = 1 /\ c.type = "expense"
    /\ \E t \in transactionsTable : t.category_id = 1 /\ t.type = "income"

\* C23: deleteTransaction(id) removes at most the row with that id: every
\* other transaction keeps all its field values and can still be read, and
\* no category is added, changed or removed; deleting the last transaction
\* of a category does not delete the category.
C23_DeleteTransactionFrame ==
    [][last'.op = "deleteTransaction" =>
         /\ categoriesTable' = before.categories
         /\ transactionsTable' \subseteq before.transactions
         /\ \A t \in before.transactions :
              t.id # args'.id =>
                /\ t \in transactionsTable'
                /\ \E r \in JoinedTransactionsWhere(transactionsTable',
                                                   categoriesTable', {}) :
                     /\ r.id = t.id
                     /\ SameAmount(r.amount, t.amount)
                     /\ r.description = t.description
                     /\ r.date = t.date
                     /\ r.category_id = t.category_id
                     /\ r.type = t.type
                     /\ r.created_at = t.created_at
         /\ \A t \in before.transactions :
              t.id = args'.id =>
                \E c \in categoriesTable' : c.id = t.category_id]_vars

\* transaction 1 deleted: transaction 2 stays, and of the two categories
\* one is left without a transaction
C23_Witness ==
    /\ last.op = "deleteTransaction"
    /\ last.success
    /\ args.id = 1
    /\ transactionsIdSeq >= 1
    /\ Cardinality(categoriesTable) = 2
    /\ \E t \in transactionsTable : transactionsTable = {t} /\ t.id = 2
    /\ \E c \in categoriesTable :
          \A t \in transactionsTable : t.category_id # c.id

(***************************************************************************)
(* Properties of concurrent calls (SpecConc).                              *)
(***************************************************************************)

\* the call of p makes a step from statement pc
StepFrom(p, pc) == calls[p].pc = pc /\ calls'[p] # calls[p]

\* C24: with the statements of concurrent createTransaction,
\* updateTransaction, deleteTransaction and deleteCategory calls interleaved
\* in any order, the store checking the foreign key at each statement, no
\* stored transaction ever references a missing category; a createTransaction
\* or updateTransaction whose category was deleted between its existence
\* check and its write fails and changes no table.
C24_ConcurrentReferentialIntegrity ==
    [][/\ \A t \in transactionsTable' :
             \E c \in categoriesTable' : c.id = t.category_id
       /\ \A p \in Procs :
            /\ (/\ StepFrom(p, "insert")
                /\ ~ \E c \in categoriesTable : c.id = args[p].category_id) =>
                 /\ calls'[p].pc = "done"
                 /\ calls'[p].outcome.error # "none"
                 /\ tables' = tables
            /\ (/\ StepFrom(p, "update")
                /\ \E k \in args[p].category_id :
                      ~ \E c \in categoriesTable : c.id = k) =>
                 /\ tables' = tables
                 /\ IF \E t \in transactionsTable : t.id = args[p].id
                    THEN calls'[p].pc = "done" /\ calls'[p].outcome.error # "none"
                    ELSE calls'[p].pc = "reread" /\ calls'[p].updated = 0
            /\ (StepFrom(p, "reread") /\ calls[p].updated = 0) =>
                 /\ calls'[p].pc = "done"
                 /\ calls'[p].outcome.error # "none"]_vars

\* a createTransaction and an updateTransaction both refused by the store:
\* the category each had found was deleted, by a deleteCategory call that
\* succeeded, before their writes
C24_Witness ==
    \E p, q, r \in Procs :
       /\ calls[p].op = "createTransaction"
       /\ calls[p].pc = "done"
       /\ calls[p].outcome.error = "StoreError"
       /\ calls[q].op = "deleteCategory"
       /\ calls[q].pc = "done"
       /\ calls[q].outcome.success
       /\ args[q].id = args[p].category_id
       /\ calls[r].op = "updateTransaction"
       /\ calls[r].pc = "done"
       /\ calls[r].outcome.error = "StoreError"
       /\ args[r].category_id = {args[q].id}

\* C25: whenever a deleteCategory(id) call returns success=true, the
\* category row existed immediately before the delete statement of that
\* call and was removed by it; hence of two deleteCategory calls for one id
\* whose steps interleave at most one returns success=true, and the other
\* fails with NotFound.
C25_DeleteCategorySuccessRemoves ==
    [][\A p \in Procs :
          (/\ StepFrom(p, "delete")
           /\ calls'[p].outcome.error = "none"
           /\ calls'[p].outcome.success) =>
             /\ \E c \in categoriesTable : c.id = args[p].id
             /\ ~ \E c \in categoriesTable' : c.id = args[p].id
             /\ \A q \in Procs \ {p} :
                  (/\ calls[q].op = "deleteCategory"
                   /\ calls[q].pc = "done"
                   /\ args[q].id = args[p].id) =>
                     /\ calls[q].outcome.error = "NotFound"
                     /\ ~ calls[q].outcome.success]_vars

\* C26: updateTransaction never reports success for a transaction that is
\* absent when its write executes: if no row has the id at call time, or a
\* concurrent deleteTransaction removes the row between the existence check
\* and the write or the re-read, the call fails with NotFound naming the
\* transaction id, and no row is created or changed.
C26_UpdateTransactionAbsentRow ==
    [][\A p \in Procs :
          /\ (/\ calls[p].pc = "idle"
              /\ calls'[p].op = "updateTransaction"
              /\ ~ \E t \in transactionsTable : t.id = args'[p].id) =>
                /\ calls'[p].pc = "done"
                /\ calls'[p].outcome.error = "NotFound"
                /\ calls'[p].outcome.entity = "transaction"
                /\ calls'[p].outcome.id = args'[p].id
                /\ tables' = tables
          /\ (/\ StepFrom(p, "update") \/ StepFrom(p, "reread")
              /\ ~ \E t \in transactionsTable : t.id = args[p].id) =>
                /\ calls'[p].pc = "done"
                /\ calls'[p].outcome.error = "NotFound"
                /\ calls'[p].outcome.entity = "transaction"
                /\ calls'[p].outcome.id = args[p].id
                /\ tables' = tables]_vars

\* The calls that have returned from deleteTransaction(id).
Deleters(id) ==
    {p \in Procs : /\ calls[p].op = "deleteTransaction"
                   /\ calls[p].pc = "done"
                   /\ args[p].id = id}

\* C27: of any number of concurrent deleteTransaction(id) calls for one
\* existing id, whatever else runs beside them, exactly one returns
\* success=true, every other returns success=false, none fails, and the row
\* is absent afterwards.
C27_ConcurrentDeleteTransaction ==
    \A id \in 1..MaxTransactionId :
        (\E t \in transactionsTable : t.id = id) =>
            [](Deleters(id) # {} =>
                 /\ ~ \E t \in transactionsTable : t.id = id
                 /\ \A p \in Deleters(id) : calls[p].outcome.error = "none"
                 /\ Cardinality({p \in Deleters(id) :
                                    calls[p].outcome.success}) = 1)

C27_Witness ==
    /\ Deleters(1) = Procs
    /\ Cardinality({p \in Procs : calls[p].outcome.success}) = 1
    /\ \A p \in Procs : calls[p].outcome.error = "none"
    /\ ~ \E t \in transactionsTable : t.id = 1
    /\ categoriesTable # {}

(***************************************************************************)
(* Properties of the client's form (SpecForm).                             *)
(***************************************************************************)
\* C30: in the TransactionForm, over any sequence of type changes, category
\* selections, field edits and submits, onSubmit is called only with
\* amount > 0, a description that is not blank and category_id # 0; every
\* change of type sets category_id to 0; so, as long as the list of
\* categories is the one the form was mounted with, the category submitted
\* is in the list and of the kind of the transaction submitted; and the
\* form is reset to its defaults only when an onSubmit call has resolved,
\* never when the validation or the call failed.
C30_TransactionForm ==
    [][/\ form'.event = "onSubmit" =>
            \E data \in form'.onSubmit :
               /\ data = form.formData
               /\ ~ AtMostZero(data.amount)
               /\ data.description \notin {"", " "}
               /\ data.category_id # 0
               /\ form.fixed =>
                     \E c \in form.categories :
                        /\ c.id = data.category_id
                        /\ c.type = data.type
       /\ form'.event = "typeChange" => form'.formData.category_id = 0
       /\ form'.event \in {"invalid", "onSubmit", "rejected", "render"} =>
            form'.formData = form.formData
       /\ form'.event = "reset" =>
            /\ form.onSubmit # {}
            /\ form.submitLoading
            /\ form'.formData = DefaultFormData]_vars

\* an income submitted under a category of kind income, chosen after the
\* type was changed from the default
C30_Witness ==
    /\ form.event = "onSubmit"
    /\ form.fixed
    /\ \E data \in form.onSubmit :
          /\ data.type = "income"
          /\ data.category_id = 2
          /\ data.amount = [units |-> 0, mills |-> 1]
          /\ \E c \in form.categories : c.id = 1 /\ c.type = "expense"

====
